---- MODULE Spec2Model ----
(***************************************************************************)
(* Turn-level routing state machine of the real-estate agent               *)
(* (src/src/graph/flow.py, nodes.py, guards.py) together with the          *)
(* services it calls.  Text is modelled with TLA+ strings processed        *)
(* character by character (Len, SubSeq, \o), so that the detectors, the    *)
(* strip() calls and the code gate are computed, not assumed.              *)
(***************************************************************************)
EXTENDS Integers, Sequences, FiniteSets, TLC

(***************************************************************************)
(* Character and string helpers (Python str / re primitives).              *)
(***************************************************************************)
UpperChars == "ABCDEFGHIJKLMNOPQRSTUVWXYZ"
LowerChars == "abcdefghijklmnopqrstuvwxyz"
DigitChars == "0123456789"

Char(s, i) == SubSeq(s, i, i)

InChars(c, chars) == \E i \in 1..Len(chars) : Char(chars, i) = c

IsUpper(c) == InChars(c, UpperChars)
IsLower(c) == InChars(c, LowerChars)
IsAlpha(c) == IsUpper(c) \/ IsLower(c)
IsDigit(c) == InChars(c, DigitChars)
IsAlnum(c) == IsAlpha(c) \/ IsDigit(c)
\* regex \w
IsWordChar(c) == IsAlnum(c) \/ c = "_"
\* regex \s and str.strip() whitespace
IsSpace(c) == c \in {" ", "\t", "\n"}

LowerChar(c) ==
    IF IsUpper(c)
    THEN Char(LowerChars, CHOOSE i \in 1..Len(UpperChars) : Char(UpperChars, i) = c)
    ELSE c

RECURSIVE Lower(_)
Lower(s) == IF Len(s) = 0 THEN "" ELSE LowerChar(Head(s)) \o Lower(Tail(s))

RECURSIVE LStrip(_)
LStrip(s) == IF Len(s) > 0 /\ IsSpace(Head(s)) THEN LStrip(Tail(s)) ELSE s

RECURSIVE RStrip(_)
RStrip(s) ==
    IF Len(s) > 0 /\ IsSpace(Char(s, Len(s)))
    THEN RStrip(SubSeq(s, 1, Len(s) - 1))
    ELSE s

\* str.strip()
Strip(s) == RStrip(LStrip(s))

\* literal match of lit in s starting at position i
MatchAt(s, i, lit) ==
    /\ i >= 1
    /\ i + Len(lit) - 1 <= Len(s)
    /\ SubSeq(s, i, i + Len(lit) - 1) = lit

\* Python "sub in s"
Contains(s, sub) == \E i \in 1..(Len(s) + 1) : MatchAt(s, i, sub)

\* regex \b between positions i-1 and i of s (1-based, i in 1..Len(s)+1)
WordBoundary(s, i) ==
    LET before == i > 1 /\ IsWordChar(Char(s, i - 1))
        after  == i <= Len(s) /\ IsWordChar(Char(s, i))
    IN  before # after

(***************************************************************************)
(* Python None and truthiness of an optional string.                       *)
(***************************************************************************)
None == "<None>"

Truthy(s) == s # None /\ s # ""

\* str(x or "")
StrOrEmpty(s) == IF Truthy(s) THEN s ELSE ""

(***************************************************************************)
(* config/constants.py                                                     *)
(***************************************************************************)
MSG_NOT_PRESENT == "The requested information is not present in the dataset"
MSG_OUT_OF_SCOPE == "I am a real estate asset manager agent, please ask me questions about real estate assets in my base"
MSG_CANNOT_PROCEED == "Cannot proceed with this request"
MSG_GIBBERISH == "I don't understand the question, please rephrase it"
MSG_MULTIPLE_QUESTION == "Please, don't ask more than one question at a time. Choose one and ask again"

INTENT_DATASET_KNOWLEDGE == "dataset_knowledge"
INTENT_DEFINITIONS == "definitions"
INTENT_GENERAL_KNOWLEDGE == "general_knowledge"
INTENT_AMBIGUOUS == "ambiguous"
INTENT_ADVERSARIAL == "adversarial"
INTENT_GIBBERISH == "gibberish"

INTENT_LITERALS ==
    { INTENT_DATASET_KNOWLEDGE, INTENT_DEFINITIONS, INTENT_GENERAL_KNOWLEDGE,
      INTENT_AMBIGUOUS, INTENT_ADVERSARIAL, INTENT_GIBBERISH }

\* The markers of ADVERSARIAL_MARKERS that can occur in the modelled queries
\* (one per family: plain word, phrase with a blank, symbol run).
ADVERSARIAL_MARKERS == << "forget", "act as", "###", "sudo", "delete" >>

(***************************************************************************)
(* src/src/graph/guards.py                                                 *)
(***************************************************************************)
\* number of segments of s between runs of "?" that are non-empty after strip
RECURSIVE CountSegments(_, _)
CountSegments(s, inSeg) ==
    IF Len(s) = 0 THEN 0
    ELSE LET c == Head(s) IN
         IF c = "?" THEN CountSegments(Tail(s), FALSE)
         ELSE IF IsSpace(c) THEN CountSegments(Tail(s), inSeg)
         ELSE (IF inSeg THEN 0 ELSE 1) + CountSegments(Tail(s), TRUE)

split_questions(user_query) == CountSegments(user_query, FALSE)

ConjunctionWords == << "and", "also", "then" >>
InterrogativeWords ==
    << "what", "which", "who", "how", "when", "where", "why", "is", "are",
       "can", "could", "would", "should", "do", "does" >>

\* first position at or after i in s that is not whitespace
RECURSIVE SkipSpaces(_, _)
SkipSpaces(s, i) ==
    IF i <= Len(s) /\ IsSpace(Char(s, i)) THEN SkipSpaces(s, i + 1) ELSE i

\* re.search(r"\b(and|also|then)\s+(what|...|does)\b", s)
ConjunctionBeforeInterrogative(s) ==
    \E i \in 1..Len(s) :
      \E a \in 1..Len(ConjunctionWords) :
        LET w1 == ConjunctionWords[a]
            j  == i + Len(w1)
            k  == SkipSpaces(s, j)
        IN  /\ WordBoundary(s, i)
            /\ MatchAt(s, i, w1)
            /\ k > j
            /\ \E b \in 1..Len(InterrogativeWords) :
                 LET w2 == InterrogativeWords[b] IN
                 /\ MatchAt(s, k, w2)
                 /\ WordBoundary(s, k + Len(w2))

\* a variant that looks for the two words anywhere, not as whole words
detect_multiple_questions_substring(user_query) ==
    \/ split_questions(user_query) > 1
    \/ \E a \in 1..Len(ConjunctionWords), b \in 1..Len(InterrogativeWords) :
          Contains(Lower(user_query),
                   ConjunctionWords[a] \o " " \o InterrogativeWords[b])

detect_multiple_questions(user_query) ==
    \/ split_questions(user_query) > 1
    \/ ConjunctionBeforeInterrogative(Lower(user_query))

detect_adversarial(text) ==
    \E m \in 1..Len(ADVERSARIAL_MARKERS) :
        Contains(Lower(text), ADVERSARIAL_MARKERS[m])

\* number of maximal runs of [A-Za-z] in s
RECURSIVE CountAlphaRuns(_, _)
CountAlphaRuns(s, inRun) ==
    IF Len(s) = 0 THEN 0
    ELSE IF IsAlpha(Head(s))
         THEN (IF inRun THEN 0 ELSE 1) + CountAlphaRuns(Tail(s), TRUE)
         ELSE CountAlphaRuns(Tail(s), FALSE)

RECURSIVE CountAlnum(_)
CountAlnum(s) ==
    IF Len(s) = 0 THEN 0
    ELSE (IF IsAlnum(Head(s)) THEN 1 ELSE 0) + CountAlnum(Tail(s))

RECURSIVE CountNonSpace(_)
CountNonSpace(s) ==
    IF Len(s) = 0 THEN 0
    ELSE (IF IsSpace(Head(s)) THEN 0 ELSE 1) + CountNonSpace(Tail(s))

HasDigit(s) == \E i \in 1..Len(s) : IsDigit(Char(s, i))

\* a variant whose ratio test does not look at the number of alphabetic runs
detect_gibberish_ratio_only(text) ==
    LET stripped == Strip(text)
    IN  \/ Len(stripped) = 0
        \/ CountAlphaRuns(stripped, FALSE) = 0 /\ ~HasDigit(stripped)
        \/ 10 * CountAlnum(stripped) < 3 * CountNonSpace(stripped)

\* ratio < 0.30 is compared as 10 * wordlike < 3 * non_space
detect_gibberish(text) ==
    LET stripped     == Strip(text)
        alpha_tokens == CountAlphaRuns(stripped, FALSE)
        has_digits   == HasDigit(stripped)
        non_space    == CountNonSpace(stripped)
        wordlike     == CountAlnum(stripped)
    IN  IF Len(stripped) = 0 THEN TRUE
        ELSE IF alpha_tokens = 0 /\ ~has_digits THEN TRUE
        ELSE IF non_space > 0 /\ 10 * wordlike < 3 * non_space /\ alpha_tokens <= 1
             THEN TRUE
        ELSE FALSE

\* a faulty route_query that never short-circuits: every text is deferred to
\* the classifier
route_query_always_continue(text) ==
    [intent |-> INTENT_DATASET_KNOWLEDGE, action |-> "continue",
     fallback_message |-> "", clarification_prompt |-> ""]

\* a variant that looks for gibberish before adversarial markers
route_query_gibberish_first(text) ==
    IF detect_gibberish(text)
    THEN [intent |-> INTENT_GIBBERISH, action |-> "fallback",
          fallback_message |-> MSG_GIBBERISH, clarification_prompt |-> ""]
    ELSE IF detect_adversarial(text)
    THEN [intent |-> INTENT_ADVERSARIAL, action |-> "fallback",
          fallback_message |-> MSG_CANNOT_PROCEED, clarification_prompt |-> ""]
    ELSE [intent |-> INTENT_DATASET_KNOWLEDGE, action |-> "continue",
          fallback_message |-> "", clarification_prompt |-> ""]

route_query(text) ==
    IF detect_adversarial(text)
    THEN [intent |-> INTENT_ADVERSARIAL, action |-> "fallback",
          fallback_message |-> MSG_CANNOT_PROCEED, clarification_prompt |-> ""]
    ELSE IF detect_gibberish(text)
    THEN [intent |-> INTENT_GIBBERISH, action |-> "fallback",
          fallback_message |-> MSG_GIBBERISH, clarification_prompt |-> ""]
    ELSE [intent |-> INTENT_DATASET_KNOWLEDGE, action |-> "continue",
          fallback_message |-> "", clarification_prompt |-> ""]

(***************************************************************************)
(* Sequence helpers (Python list primitives).                              *)
(***************************************************************************)
InSeq(x, seq) == \E i \in 1..Len(seq) : seq[i] = x

\* [f(x) for x in seq if keep(x)] for the two shapes the code uses
RECURSIVE StripNonEmpty(_)
StripNonEmpty(seq) ==
    IF Len(seq) = 0 THEN << >>
    ELSE LET v == Strip(Head(seq)) IN
         (IF v = "" THEN << >> ELSE << v >>) \o StripNonEmpty(Tail(seq))

RECURSIVE JoinWithSpace(_)
JoinWithSpace(seq) ==
    IF Len(seq) = 0 THEN ""
    ELSE IF Len(seq) = 1 THEN seq[1]
    ELSE seq[1] \o " " \o JoinWithSpace(Tail(seq))

(***************************************************************************)
(* src/src/graph/resolvers.py : text normalisation and value resolution    *)
(***************************************************************************)
\* re.sub(r"[^a-z0-9]+", " ", value.lower()).strip(), blanks collapsed
RECURSIVE NormalizeAcc(_, _)
NormalizeAcc(s, acc) ==
    IF Len(s) = 0
    THEN (IF Len(acc) > 0 /\ Char(acc, Len(acc)) = " "
          THEN SubSeq(acc, 1, Len(acc) - 1) ELSE acc)
    ELSE LET c == LowerChar(Head(s)) IN
         IF IsLower(c) \/ IsDigit(c)
         THEN NormalizeAcc(Tail(s), acc \o c)
         ELSE IF Len(acc) = 0 \/ Char(acc, Len(acc)) = " "
              THEN NormalizeAcc(Tail(s), acc)
              ELSE NormalizeAcc(Tail(s), acc \o " ")

_normalize_text(value) == NormalizeAcc(value, "")

\* first-occurrence de-duplication of a list of strings by normalised form,
\* dropping items whose normalised form is empty
RECURSIVE DedupeByNorm(_, _)
DedupeByNorm(seq, seen) ==
    IF Len(seq) = 0 THEN << >>
    ELSE LET key == _normalize_text(Head(seq)) IN
         IF key # "" /\ key \notin seen
         THEN << Head(seq) >> \o DedupeByNorm(Tail(seq), seen \cup {key})
         ELSE DedupeByNorm(Tail(seq), seen)

\* first-occurrence de-duplication of a list of strings by equality
RECURSIVE DedupeExact(_)
DedupeExact(seq) ==
    IF Len(seq) = 0 THEN << >>
    ELSE LET rest == DedupeExact(SubSeq(seq, 1, Len(seq) - 1))
             x    == seq[Len(seq)]
         IN  IF InSeq(x, rest) THEN rest ELSE Append(rest, x)

\* sorted(set(matches), key=len)[0]: a shortest element; the order of equal
\* lengths is the iteration order of a Python set of str, which the build
\* does not fix.  tie selects among the shortest ones by list position.
ShortestOf(matches, tie) ==
    LET minLen   == CHOOSE n \in { Len(matches[i]) : i \in 1..Len(matches) } :
                        \A i \in 1..Len(matches) : n <= Len(matches[i])
        shortest == SelectSeq(matches, LAMBDA m : Len(m) = minLen)
        distinct == DedupeExact(shortest)
    IN  distinct[((tie - 1) % Len(distinct)) + 1]

\* _find_best_matches: only element [0] of the returned list is consumed by
\* the callers, so the substring tier returns the chosen shortest match alone
_find_best_matches(raw_value, allowed_strings, tie) ==
    LET norm_value == _normalize_text(raw_value)
        exact == SelectSeq(allowed_strings,
                           LAMBDA a : _normalize_text(a) = norm_value)
        substring_matches ==
            SelectSeq(allowed_strings,
                      LAMBDA a : LET allowed_norm == _normalize_text(a) IN
                                 /\ allowed_norm # ""
                                 /\ \/ Contains(allowed_norm, norm_value)
                                    \/ Contains(norm_value, allowed_norm))
    IN  IF norm_value = "" THEN << >>
        ELSE IF Len(exact) > 0 THEN exact
        ELSE IF Len(substring_matches) > 0
             THEN << ShortestOf(substring_matches, tie) >>
        ELSE << >>

\* the per-value loop of _resolve_requested_values (resolvers.py 67-78)
RECURSIVE ResolveLoop(_, _, _)
ResolveLoop(values, allowed_strings, tie) ==
    IF Len(values) = 0 THEN [resolved |-> << >>, unresolved |-> << >>]
    ELSE LET raw_value == Strip(Head(values))
             rest      == ResolveLoop(Tail(values), allowed_strings, tie)
             matches   == _find_best_matches(raw_value, allowed_strings, tie)
         IN  IF raw_value = "" THEN rest
             ELSE IF Len(matches) = 0
                  THEN [rest EXCEPT !.unresolved = << raw_value >> \o @]
                  ELSE [rest EXCEPT !.resolved = << matches[1] >> \o @]

\* resolvers.py 80-107: the joined-compound pass over the loop's two lists
\* and the final de-duplication
JoinedPass(loop, joined_matches) ==
    LET canonical == joined_matches[1]
        resolved ==
            IF Len(joined_matches) = 0 \/ InSeq(canonical, loop.resolved)
            THEN loop.resolved
            ELSE Append(SelectSeq(loop.resolved,
                                  LAMBDA item : _normalize_text(item)
                                                  # _normalize_text(canonical)),
                        canonical)
        unresolved ==
            IF Len(joined_matches) = 0 THEN loop.unresolved
            ELSE SelectSeq(loop.unresolved,
                           LAMBDA item : ~Contains(_normalize_text(canonical),
                                                   _normalize_text(item)))
    IN  [resolved |-> DedupeByNorm(resolved, {}), unresolved |-> unresolved]

\* " ".join(str(v).strip() for v in requested_values if str(v).strip()),
\* matched only when two or more values were requested
JoinedMatches(requested_values, joined, allowed_strings, tie) ==
    IF Len(requested_values) >= 2 /\ joined # ""
    THEN _find_best_matches(joined, allowed_strings, tie)
    ELSE << >>

_resolve_requested_values(requested_values, allowed_raw, tie) ==
    LET allowed_strings == allowed_raw IN
    IF Len(allowed_strings) = 0
    THEN [resolved |-> requested_values, unresolved |-> << >>]
    ELSE JoinedPass(ResolveLoop(requested_values, allowed_strings, tie),
                    JoinedMatches(requested_values,
                                  JoinWithSpace(StripNonEmpty(requested_values)),
                                  allowed_strings, tie))

(***************************************************************************)
(* config/matching_rules.py and the ledger column tuple of resolvers.py    *)
(***************************************************************************)
MISSING_CHECK_COLUMNS ==
    << "entity_name", "property_name", "tenant_name", "ledger_code",
       "ledger_type", "ledger_group", "ledger_category", "ledger_description" >>

ledger_columns ==
    << "ledger_type", "ledger_group", "ledger_category", "ledger_code",
       "ledger_description" >>

\* normalized.split()
RECURSIVE SplitTokens(_, _)
SplitTokens(s, cur) ==
    IF Len(s) = 0 THEN (IF cur = "" THEN << >> ELSE << cur >>)
    ELSE IF Head(s) = " "
         THEN (IF cur = "" THEN << >> ELSE << cur >>) \o SplitTokens(Tail(s), "")
         ELSE SplitTokens(Tail(s), cur \o Head(s))

\* a variant that takes only a digit for explicit
_is_explicit_identifier_digit_only(value) ==
    LET normalized == _normalize_text(value)
    IN  normalized # "" /\ HasDigit(normalized)

_is_explicit_identifier(value) ==
    LET normalized == _normalize_text(value)
        tokens     == SplitTokens(normalized, "")
    IN  IF normalized = "" THEN FALSE
        ELSE IF HasDigit(normalized) THEN TRUE
        ELSE IF Len(tokens) = 1 THEN FALSE
        ELSE IF \A i \in 1..Len(tokens) : Len(tokens[i]) <= 2 THEN FALSE
        ELSE Len(tokens) >= 2

\* the two candidate tiers of the ledger scans: normalised equality, and
\* (only when not equal) the mention contained in the known value
TierMatch(canonical, raw_norm, tier) ==
    LET canonical_norm == _normalize_text(canonical) IN
    /\ canonical_norm # ""
    /\ IF tier = "exact" THEN canonical_norm = raw_norm
       ELSE canonical_norm # raw_norm /\ Contains(canonical_norm, raw_norm)

\* [(column, value) for value in unique_values[column] if it matches]
RECURSIVE PairsOf(_, _, _, _)
PairsOf(column, values, raw_norm, tier) ==
    IF Len(values) = 0 THEN << >>
    ELSE (IF TierMatch(Head(values), raw_norm, tier)
          THEN << [column |-> column, value |-> Head(values)] >>
          ELSE << >>) \o PairsOf(column, Tail(values), raw_norm, tier)

\* the candidate scan over the ledger columns, in ledger_columns order
RECURSIVE LedgerCandidates(_, _, _, _)
LedgerCandidates(columns, unique_values, raw_norm, tier) ==
    IF Len(columns) = 0 THEN << >>
    ELSE PairsOf(Head(columns), unique_values[Head(columns)], raw_norm, tier)
           \o LedgerCandidates(Tail(columns), unique_values, raw_norm, tier)

\* de-duplication of (column, value) candidates by (column, normalised value)
RECURSIVE DedupePairs(_, _)
DedupePairs(candidates, seen) ==
    IF Len(candidates) = 0 THEN << >>
    ELSE LET key == << Head(candidates).column,
                       _normalize_text(Head(candidates).value) >>
         IN  IF key \in seen THEN DedupePairs(Tail(candidates), seen)
             ELSE << Head(candidates) >>
                    \o DedupePairs(Tail(candidates), seen \cup {key})

\* returns << >> for None, or a one-element list holding the rescue target
_try_cross_column_ledger_rescue(source_column, raw_value, unique_values) ==
    LET normalized_raw == _normalize_text(raw_value)
        candidates ==
            LedgerCandidates(ledger_columns, unique_values, normalized_raw,
                             "exact")
        deduped == DedupePairs(candidates, {})
    IN  IF ~InSeq(source_column, ledger_columns) THEN << >>
        ELSE IF normalized_raw = "" THEN << >>
        ELSE IF Len(deduped) # 1 THEN << >>
        ELSE deduped

\* destination_values.append(canonical_value) unless a normalised-equal
\* value is already there (resolvers.py 203-211 and 298-306)
AppendCanonical(entities, destination_column, canonical_value) ==
    LET destination_values == entities[destination_column] IN
    IF \E i \in 1..Len(destination_values) :
          _normalize_text(destination_values[i]) = _normalize_text(canonical_value)
    THEN entities
    ELSE [entities EXCEPT ![destination_column] = Append(@, canonical_value)]

\* the rescue loop over the absent values of one column (resolvers.py 191-213)
RECURSIVE RescueLoop(_, _, _, _)
RescueLoop(absent, column, entities, unique_values) ==
    IF Len(absent) = 0 THEN [entities |-> entities, rescued_absent |-> << >>]
    ELSE LET rescue == _try_cross_column_ledger_rescue(column, Head(absent),
                                                       unique_values)
         IN  IF Len(rescue) = 0
             THEN LET rest == RescueLoop(Tail(absent), column, entities,
                                         unique_values)
                  IN  [rest EXCEPT !.rescued_absent = << Head(absent) >> \o @]
             ELSE RescueLoop(Tail(absent), column,
                             AppendCanonical(entities, rescue[1].column,
                                             rescue[1].value),
                             unique_values)

\* the column loop of _missing_requested_values (resolvers.py 180-221);
\* missing maps a column to its blocking values
RECURSIVE MissingLoop(_, _, _, _, _)
MissingLoop(columns, entities, missing, unique_values, tie) ==
    IF Len(columns) = 0 THEN [entities |-> entities, missing |-> missing]
    ELSE LET column    == Head(columns)
             requested == entities[column]
             \* resolvers.py 214-219: the explicit absent values block
             Block(rescued, explicit_absent) ==
                 MissingLoop(Tail(columns), rescued.entities,
                             IF Len(explicit_absent) > 0
                             THEN missing \cup {[column |-> column,
                                                 values |-> explicit_absent]}
                             ELSE missing,
                             unique_values, tie)
             Rescued(rescued) ==
                 Block(rescued,
                       SelectSeq(rescued.rescued_absent, _is_explicit_identifier))
             \* resolvers.py 185-213: entities[column] = resolved, then the
             \* rescue of the unresolved values
             Resolved(res) ==
                 Rescued(RescueLoop(res.unresolved, column,
                                    [entities EXCEPT ![column] = res.resolved],
                                    unique_values))
         IN  IF Len(requested) = 0
             THEN MissingLoop(Tail(columns), entities, missing, unique_values, tie)
             ELSE Resolved(_resolve_requested_values(requested,
                                                     unique_values[column], tie))

_missing_requested_values(entities, data_profile, tie) ==
    MissingLoop(MISSING_CHECK_COLUMNS, entities, {}, data_profile.unique_values,
                tie)

\* the mention loop of _resolve_ledger_raw_mentions (resolvers.py 244-306)
RECURSIVE RawMentionLoop(_, _, _)
RawMentionLoop(raw_mentions, entities, unique_values) ==
    IF Len(raw_mentions) = 0 THEN [entities |-> entities, unresolved |-> << >>]
    ELSE LET raw_value == Strip(Head(raw_mentions))
             raw_norm  == _normalize_text(raw_value)
             exact_candidates ==
                 DedupePairs(LedgerCandidates(ledger_columns, unique_values,
                                              raw_norm, "exact"), {})
             substring_candidates ==
                 DedupePairs(LedgerCandidates(ledger_columns, unique_values,
                                              raw_norm, "substring"), {})
             chosen ==
                 IF Len(exact_candidates) = 1 THEN exact_candidates
                 ELSE IF Len(exact_candidates) > 1 THEN << >>
                 ELSE IF Len(substring_candidates) = 1 THEN substring_candidates
                 ELSE << >>
         IN  IF raw_value = "" \/ raw_norm = ""
             THEN RawMentionLoop(Tail(raw_mentions), entities, unique_values)
             ELSE IF Len(chosen) = 0
             THEN LET rest == RawMentionLoop(Tail(raw_mentions), entities,
                                             unique_values)
                  IN  [rest EXCEPT !.unresolved = << raw_value >> \o @]
             ELSE RawMentionLoop(Tail(raw_mentions),
                                 AppendCanonical(entities, chosen[1].column,
                                                 chosen[1].value),
                                 unique_values)

\* returns the mutated entities and the unresolved mentions (the code returns
\* {"ledger_raw_mentions": unresolved}, or {} when there are none)
_resolve_ledger_raw_mentions(entities, data_profile) ==
    LET Result(loop) ==
            [entities |-> [loop.entities EXCEPT
                              !.ledger_raw_mentions = loop.unresolved],
             unresolved |-> loop.unresolved]
    IN  IF Len(entities.ledger_raw_mentions) = 0
        THEN [entities |-> entities, unresolved |-> << >>]
        ELSE Result(RawMentionLoop(entities.ledger_raw_mentions, entities,
                                   data_profile.unique_values))

(***************************************************************************)
(* src/src/graph/resolvers.py : time-scope normalisation                   *)
(***************************************************************************)
\* f"{month:02d}"
TwoDigits(n) == IF n < 10 THEN "0" \o ToString(n) ELSE ToString(n)

\* the fields every recognised relative period resets
ClearedScope(time_scope) ==
    [time_scope EXCEPT !.mode = "exact", !.year = None, !.quarter = None,
                       !.month = None, !.column = None, !.start = None,
                       !.end = None, !.relative_period = None]

\* relative resolution whose shifted quarter and month do not wrap into the
\* neighbouring year
ResolveRelativePeriod_no_wraparound(time_scope, now) ==
    LET relative_period == Lower(Strip(StrOrEmpty(time_scope.relative_period)))
        quarter_index   == ((now.month - 1) \div 3) + 1
    IN  IF relative_period = "current_year"
        THEN [ClearedScope(time_scope) EXCEPT !.year = ToString(now.year)]
        ELSE IF relative_period = "last_year"
        THEN [ClearedScope(time_scope) EXCEPT !.year = ToString(now.year - 1)]
        ELSE IF relative_period = "next_year"
        THEN [ClearedScope(time_scope) EXCEPT !.year = ToString(now.year + 1)]
        ELSE IF relative_period \in {"current_quarter", "last_quarter", "next_quarter"}
        THEN LET q0 == IF relative_period = "last_quarter" THEN quarter_index - 1
                       ELSE IF relative_period = "next_quarter" THEN quarter_index + 1
                       ELSE quarter_index
                 q  == q0
                 y  == IF q0 = 0 THEN now.year - 1
                       ELSE IF q0 = 5 THEN now.year + 1 ELSE now.year
             IN  [ClearedScope(time_scope) EXCEPT
                     !.quarter = ToString(y) \o "-Q" \o ToString(q)]
        ELSE IF relative_period \in {"current_month", "last_month", "next_month"}
        THEN LET m0 == IF relative_period = "last_month" THEN now.month - 1
                       ELSE IF relative_period = "next_month" THEN now.month + 1
                       ELSE now.month
                 m  == m0
                 y  == IF m0 = 0 THEN now.year - 1
                       ELSE IF m0 = 13 THEN now.year + 1 ELSE now.year
             IN  [ClearedScope(time_scope) EXCEPT
                     !.month = ToString(y) \o "-M" \o TwoDigits(m)]
        ELSE time_scope

\* resolvers.py 330-421: relative period to exact token at the date now
ResolveRelativePeriod(time_scope, now) ==
    LET relative_period == Lower(Strip(StrOrEmpty(time_scope.relative_period)))
        quarter_index   == ((now.month - 1) \div 3) + 1
    IN  IF relative_period = "current_year"
        THEN [ClearedScope(time_scope) EXCEPT !.year = ToString(now.year)]
        ELSE IF relative_period = "last_year"
        THEN [ClearedScope(time_scope) EXCEPT !.year = ToString(now.year - 1)]
        ELSE IF relative_period = "next_year"
        THEN [ClearedScope(time_scope) EXCEPT !.year = ToString(now.year + 1)]
        ELSE IF relative_period \in {"current_quarter", "last_quarter", "next_quarter"}
        THEN LET q0 == IF relative_period = "last_quarter" THEN quarter_index - 1
                       ELSE IF relative_period = "next_quarter" THEN quarter_index + 1
                       ELSE quarter_index
                 q  == IF q0 = 0 THEN 4 ELSE IF q0 = 5 THEN 1 ELSE q0
                 y  == IF q0 = 0 THEN now.year - 1
                       ELSE IF q0 = 5 THEN now.year + 1 ELSE now.year
             IN  [ClearedScope(time_scope) EXCEPT
                     !.quarter = ToString(y) \o "-Q" \o ToString(q)]
        ELSE IF relative_period \in {"current_month", "last_month", "next_month"}
        THEN LET m0 == IF relative_period = "last_month" THEN now.month - 1
                       ELSE IF relative_period = "next_month" THEN now.month + 1
                       ELSE now.month
                 m  == IF m0 = 0 THEN 12 ELSE IF m0 = 13 THEN 1 ELSE m0
                 y  == IF m0 = 0 THEN now.year - 1
                       ELSE IF m0 = 13 THEN now.year + 1 ELSE now.year
             IN  [ClearedScope(time_scope) EXCEPT
                     !.month = ToString(y) \o "-M" \o TwoDigits(m)]
        ELSE time_scope

\* the precedence with the surviving field cleared along with the others
CanonicalScope_clears_survivor(time_scope) ==
    LET mode    == time_scope.mode
        month   == Strip(StrOrEmpty(time_scope.month))
        quarter == Strip(StrOrEmpty(time_scope.quarter))
        year    == Strip(StrOrEmpty(time_scope.year))
    IN  IF month # "" \/ quarter # "" \/ year # ""
        THEN [time_scope EXCEPT !.mode = "exact", !.relative_period = None,
                 !.month = None, !.quarter = None, !.year = None]
        ELSE IF mode = "exact"
        THEN [time_scope EXCEPT !.mode = "none", !.relative_period = None]
        ELSE time_scope

\* the precedence taken the other way round, year > quarter > month
CanonicalScope_year_first(time_scope) ==
    LET mode    == time_scope.mode
        month   == Strip(StrOrEmpty(time_scope.month))
        quarter == Strip(StrOrEmpty(time_scope.quarter))
        year    == Strip(StrOrEmpty(time_scope.year))
    IN  IF month # "" \/ quarter # "" \/ year # ""
        THEN IF year # ""
             THEN [time_scope EXCEPT !.mode = "exact", !.relative_period = None,
                      !.month = None, !.quarter = None, !.year = year]
             ELSE IF quarter # ""
             THEN [time_scope EXCEPT !.mode = "exact", !.relative_period = None,
                      !.month = None, !.quarter = quarter, !.year = None]
             ELSE [time_scope EXCEPT !.mode = "exact", !.relative_period = None,
                      !.month = month, !.quarter = None, !.year = None]
        ELSE IF mode = "exact"
        THEN [time_scope EXCEPT !.mode = "none", !.relative_period = None]
        ELSE time_scope

\* resolvers.py 423-449: canonical precedence month > quarter > year
CanonicalScope(time_scope) ==
    LET mode    == time_scope.mode
        month   == Strip(StrOrEmpty(time_scope.month))
        quarter == Strip(StrOrEmpty(time_scope.quarter))
        year    == Strip(StrOrEmpty(time_scope.year))
    IN  IF month # "" \/ quarter # "" \/ year # ""
        THEN IF month # ""
             THEN [time_scope EXCEPT !.mode = "exact", !.relative_period = None,
                      !.month = month, !.quarter = None, !.year = None]
             ELSE IF quarter # ""
             THEN [time_scope EXCEPT !.mode = "exact", !.relative_period = None,
                      !.month = None, !.quarter = quarter, !.year = None]
             ELSE [time_scope EXCEPT !.mode = "exact", !.relative_period = None,
                      !.month = None, !.quarter = None, !.year = year]
        ELSE IF mode = "exact"
        THEN [time_scope EXCEPT !.mode = "none", !.relative_period = None]
        ELSE time_scope

\* a variant that leaves the entities' clarification flag and prompt alone
_resolve_relative_time_scope_keeps_flag(entities, now) ==
    [entities EXCEPT !.time_scope =
        CanonicalScope(ResolveRelativePeriod(entities.time_scope, now))]

_resolve_relative_time_scope(entities, now) ==
    LET time_scope == CanonicalScope(ResolveRelativePeriod(entities.time_scope, now))
    IN  IF time_scope.mode = "exact"
        THEN [entities EXCEPT !.time_scope = time_scope,
                              !.needs_clarification = FALSE,
                              !.clarification_prompt = ""]
        ELSE [entities EXCEPT !.time_scope = time_scope]

_format_time_scope_request(time_scope) ==
    LET month   == Strip(StrOrEmpty(time_scope.month))
        quarter == Strip(StrOrEmpty(time_scope.quarter))
        year    == Strip(StrOrEmpty(time_scope.year))
    IN  IF time_scope.mode # "exact" THEN None
        ELSE IF month # "" THEN "month " \o month
        ELSE IF quarter # "" THEN "quarter " \o quarter
        ELSE IF year # "" THEN "year " \o year
        ELSE None

(***************************************************************************)
(* config/month_labels.py and the month formatters                         *)
(***************************************************************************)
MONTH_LABELS ==
    [M01 |-> "January", M02 |-> "February", M03 |-> "March", M04 |-> "April",
     M05 |-> "May", M06 |-> "June", M07 |-> "July", M08 |-> "August",
     M09 |-> "September", M10 |-> "October", M11 |-> "November",
     M12 |-> "December"]

AllDigits(s) == \A i \in 1..Len(s) : IsDigit(Char(s, i))

\* M\d{2} at position i of s
MonthTokenAt(s, i) ==
    /\ i + 2 <= Len(s)
    /\ Char(s, i) = "M"
    /\ AllDigits(SubSeq(s, i + 1, i + 2))

\* (\d{4})-(M\d{2}) at position i of s
YearMonthAt(s, i) ==
    /\ i + 7 <= Len(s)
    /\ Char(s, i + 4) = "-"
    /\ AllDigits(SubSeq(s, i, i + 3))
    /\ MonthTokenAt(s, i + 5)

\* least element of a non-empty set of positions
MinOf(positions) == CHOOSE j \in positions : \A k \in positions : j <= k

\* re.sub(r"\b(\d{4})-(M\d{2})\b", _replace_year_month, text): the text from
\* position i on, with the leftmost matches replaced one after the other
RECURSIVE ReplaceYearMonth(_, _)
ReplaceYearMonth(s, i) ==
    LET matches == { j \in i..Len(s) : /\ YearMonthAt(s, j)
                                       /\ WordBoundary(s, j)
                                       /\ WordBoundary(s, j + 8) }
        j           == MinOf(matches)
        year        == SubSeq(s, j, j + 3)
        month_token == SubSeq(s, j + 5, j + 7)
    IN  IF matches = {} THEN SubSeq(s, i, Len(s))
        ELSE SubSeq(s, i, j - 1)
               \o (IF month_token \in DOMAIN MONTH_LABELS
                   THEN MONTH_LABELS[month_token] \o " " \o year
                   ELSE SubSeq(s, j, j + 7))
               \o ReplaceYearMonth(s, j + 8)

\* re.sub(r"\b(M\d{2})\b", _replace_month_only, text), from position i on
RECURSIVE ReplaceMonthOnly(_, _)
ReplaceMonthOnly(s, i) ==
    LET matches == { j \in i..Len(s) : /\ MonthTokenAt(s, j)
                                       /\ WordBoundary(s, j)
                                       /\ WordBoundary(s, j + 3) }
        j           == MinOf(matches)
        month_token == SubSeq(s, j, j + 2)
    IN  IF matches = {} THEN SubSeq(s, i, Len(s))
        ELSE SubSeq(s, i, j - 1)
               \o (IF month_token \in DOMAIN MONTH_LABELS
                   THEN MONTH_LABELS[month_token]
                   ELSE month_token)
               \o ReplaceMonthOnly(s, j + 3)

_format_month_tokens(text) == ReplaceMonthOnly(ReplaceYearMonth(text, 1), 1)

\* _format_month_token of _format_available_time_range: re.fullmatch
_format_month_token(value) ==
    IF Len(value) = 8 /\ YearMonthAt(value, 1)
          /\ SubSeq(value, 6, 8) \in DOMAIN MONTH_LABELS
    THEN MONTH_LABELS[SubSeq(value, 6, 8)] \o " " \o SubSeq(value, 1, 4)
    ELSE value

_format_available_time_range(data_profile) ==
    LET min_month   == Strip(StrOrEmpty(data_profile.min_month))
        max_month   == Strip(StrOrEmpty(data_profile.max_month))
        min_quarter == Strip(StrOrEmpty(data_profile.min_quarter))
        max_quarter == Strip(StrOrEmpty(data_profile.max_quarter))
        min_year    == Strip(StrOrEmpty(data_profile.min_year))
        max_year    == Strip(StrOrEmpty(data_profile.max_year))
    IN  IF min_month # "" /\ max_month # ""
        THEN "from " \o _format_month_token(min_month) \o " to "
                \o _format_month_token(max_month)
        ELSE IF min_quarter # "" /\ max_quarter # ""
        THEN "from " \o min_quarter \o " to " \o max_quarter
        ELSE IF min_year # "" /\ max_year # ""
        THEN "from " \o min_year \o " to " \o max_year
        ELSE None

EmptyDict == << >>

\* a variant that never has a specific message
_time_range_not_present_answer_none(entities, data_profile) == None

\* entities.get("time_scope", {}) of an entities dict that may be {}
_time_range_not_present_answer(entities, data_profile) ==
    LET requested == IF entities = EmptyDict THEN None
                     ELSE _format_time_scope_request(entities.time_scope)
        available == _format_available_time_range(data_profile)
    IN  IF ~Truthy(requested) \/ ~Truthy(available) THEN None
        ELSE "You are asking for information in " \o requested
                \o ", but the information I have is " \o available \o "."

(***************************************************************************)
(* src/src/graph/resolvers.py : metric and definitions eligibility         *)
(***************************************************************************)
\* a variant that looks the metric up in the registry and never at the
\* columns it requires
_is_supported_metric_request_ignores_columns(entities, data_profile) ==
    LET requested_metric == Lower(Strip(StrOrEmpty(entities.requested_metric)))
    IN  \/ requested_metric = ""
        \/ requested_metric = "unknown"
        \/ requested_metric \in DOMAIN data_profile.supported_metrics

_is_supported_metric_request(entities, data_profile) ==
    LET requested_metric == Lower(Strip(StrOrEmpty(entities.requested_metric)))
        supported_metrics == data_profile.supported_metrics
    IN  IF requested_metric = "" \/ requested_metric = "unknown" THEN TRUE
        ELSE IF requested_metric \notin DOMAIN supported_metrics THEN FALSE
        ELSE LET required == supported_metrics[requested_metric].required_columns
             IN  \A i \in 1..Len(required) : required[i] \in data_profile.columns

AnyNonBlank(values) == \E i \in 1..Len(values) : Strip(values[i]) # ""

concrete_value_columns ==
    << "entity_name", "property_name", "tenant_name", "ledger_type",
       "ledger_group", "ledger_category", "ledger_code", "ledger_description",
       "ledger_raw_mentions" >>

_definitions_intent_is_eligible(entities) ==
    LET requested_metric == Lower(Strip(StrOrEmpty(entities.requested_metric)))
    IN  /\ \A i \in 1..Len(concrete_value_columns) :
              ~AnyNonBlank(entities[concrete_value_columns[i]])
        /\ ~AnyNonBlank(entities.request_target)
        /\ ~(requested_metric # "" /\ requested_metric # "unknown")
        /\ entities.ranking.mode = "none"
        /\ entities.ranking.top_k = None
        /\ entities.time_scope.mode = "none"
        /\ ~entities.needs_clarification

(***************************************************************************)
(* src/src/contracts/policies.py : the code gate's denylist                *)
(***************************************************************************)
\* Patterns of the shape  [\b] literal [\b] : lb / rb tell whether the regex
\* has a leading / trailing \b.
Pat(lb, lit, rb) == [lb |-> lb, lit |-> lit, rb |-> rb]

FORBIDDEN_CODE_PATTERNS ==
    << Pat(FALSE, "__import__", FALSE), Pat(TRUE, "import", TRUE),
       Pat(TRUE, "eval(", FALSE), Pat(TRUE, "exec(", FALSE),
       Pat(TRUE, "compile(", FALSE), Pat(TRUE, "execfile(", FALSE),
       Pat(TRUE, "open(", FALSE), Pat(TRUE, "os.", FALSE),
       Pat(TRUE, "pathlib.", FALSE), Pat(TRUE, "shutil.", FALSE),
       Pat(TRUE, "glob.", FALSE), Pat(TRUE, "tempfile.", FALSE),
       Pat(TRUE, "fnmatch.", FALSE), Pat(TRUE, "fileinput.", FALSE),
       Pat(TRUE, "subprocess.", FALSE), Pat(TRUE, "os.system(", FALSE),
       Pat(TRUE, "os.popen(", FALSE), Pat(TRUE, "os.spawn", FALSE),
       Pat(TRUE, "os.exec", FALSE), Pat(TRUE, "pexpect.", FALSE),
       Pat(TRUE, "pty.", FALSE), Pat(TRUE, "commands.", FALSE),
       Pat(TRUE, "socket.", FALSE), Pat(TRUE, "urllib.", FALSE),
       Pat(TRUE, "urllib2.", FALSE), Pat(TRUE, "requests.", FALSE),
       Pat(TRUE, "httplib.", FALSE), Pat(TRUE, "http.client", FALSE),
       Pat(TRUE, "ftplib.", FALSE), Pat(TRUE, "smtplib.", FALSE),
       Pat(TRUE, "imaplib.", FALSE), Pat(TRUE, "paramiko.", FALSE),
       Pat(TRUE, "twisted.", FALSE), Pat(TRUE, "aiohttp.", FALSE),
       Pat(TRUE, "httpx.", FALSE), Pat(TRUE, "pickle.", FALSE),
       Pat(TRUE, "cPickle.", FALSE), Pat(TRUE, "marshal.", FALSE),
       Pat(TRUE, "shelve.", FALSE), Pat(TRUE, "yaml.load(", FALSE),
       Pat(TRUE, "jsonpickle.", FALSE), Pat(TRUE, "getattr(", FALSE),
       Pat(TRUE, "setattr(", FALSE), Pat(TRUE, "delattr(", FALSE),
       Pat(TRUE, "hasattr(", FALSE), Pat(TRUE, "vars(", FALSE),
       Pat(TRUE, "dir(", FALSE), Pat(TRUE, "globals(", FALSE),
       Pat(TRUE, "locals(", FALSE), Pat(TRUE, "__builtins__", FALSE),
       Pat(TRUE, "__globals__", FALSE), Pat(TRUE, "__locals__", FALSE),
       Pat(TRUE, "__code__", FALSE), Pat(TRUE, "__class__", FALSE),
       Pat(TRUE, "__bases__", FALSE), Pat(TRUE, "__subclasses__(", FALSE),
       Pat(TRUE, "__mro__", FALSE), Pat(TRUE, "ast.", FALSE),
       Pat(TRUE, "dis.", FALSE), Pat(TRUE, "inspect.", FALSE),
       Pat(TRUE, "types.", FALSE), Pat(TRUE, "ctypes.", FALSE),
       Pat(TRUE, "cffi.", FALSE), Pat(TRUE, "multiprocessing.", FALSE),
       Pat(TRUE, "threading.", FALSE), Pat(TRUE, "concurrent.", FALSE),
       Pat(TRUE, "asyncio.", FALSE), Pat(TRUE, "signal.", FALSE),
       Pat(TRUE, "os.environ", FALSE), Pat(TRUE, "os.getenv(", FALSE),
       Pat(TRUE, "dotenv.", FALSE), Pat(TRUE, "configparser.", FALSE),
       Pat(TRUE, "DROP", TRUE), Pat(TRUE, "TRUNCATE", TRUE),
       Pat(TRUE, "ALTER", TRUE), Pat(TRUE, "shlex.", FALSE),
       Pat(TRUE, "breakpoint(", FALSE), Pat(TRUE, "input(", FALSE),
       Pat(TRUE, "memoryview(", FALSE), Pat(TRUE, "__debug__", FALSE) >>

\* re.search of one literal pattern
PatternMatches(pattern, code) ==
    \E i \in 1..Len(code) :
        /\ MatchAt(code, i, pattern.lit)
        /\ pattern.lb => WordBoundary(code, i)
        /\ pattern.rb => WordBoundary(code, i + Len(pattern.lit))

SqlKeywords ==
    << "INSERT", "UPDATE", "DELETE", "DROP", "CREATE", "ALTER", "TRUNCATE" >>

\* r"\b\.execute\s*\(\s*['\"]?\s*(INSERT|UPDATE|DELETE|DROP|CREATE|ALTER|TRUNCATE)"
ExecuteSqlMatches(code) ==
    \E i \in 1..Len(code) :
        LET j == SkipSpaces(code, i + Len(".execute"))
            k == SkipSpaces(code, j + 1)
            startsKeyword(n) ==
                \E w \in 1..Len(SqlKeywords) : MatchAt(code, n, SqlKeywords[w])
        IN  /\ WordBoundary(code, i)
            /\ MatchAt(code, i, ".execute")
            /\ MatchAt(code, j, "(")
            /\ \/ startsKeyword(k)
               \/ /\ k <= Len(code)
                  /\ Char(code, k) \in {"'", "\""}
                  /\ startsKeyword(SkipSpaces(code, k + 1))

\* r"__class__.*__init__.*__globals__" ( . does not match a newline )
ClassInitGlobalsMatches(code) ==
    \E i \in 1..Len(code) :
        /\ MatchAt(code, i, "__class__")
        /\ \E j \in (i + Len("__class__"))..Len(code) :
              /\ MatchAt(code, j, "__init__")
              /\ \E k \in (j + Len("__init__"))..Len(code) :
                    /\ MatchAt(code, k, "__globals__")
                    /\ \A n \in i..k : Char(code, n) # "\n"

\* any(re.search(pattern, python_code) for pattern in FORBIDDEN_CODE_PATTERNS)
MatchesForbiddenPattern(code) ==
    \/ \E p \in 1..Len(FORBIDDEN_CODE_PATTERNS) :
          PatternMatches(FORBIDDEN_CODE_PATTERNS[p], code)
    \/ ExecuteSqlMatches(code)
    \/ ClassInitGlobalsMatches(code)

(***************************************************************************)
(* The dataset profile (src/src/data/profiler.py build_data_profile) of a  *)
(* small dataset, and the supported-metric registry.                       *)
(***************************************************************************)
EXPECTED_COLUMNS ==
    { "entity_name", "property_name", "tenant_name", "ledger_type",
      "ledger_group", "ledger_category", "ledger_code", "ledger_description",
      "month", "quarter", "year", "profit" }

SUPPORTED_METRICS ==
    [pnl            |-> [required_columns |-> << "ledger_type", "profit" >>],
     revenue_total  |-> [required_columns |-> << "ledger_type", "profit" >>],
     expenses_total |-> [required_columns |-> << "ledger_type", "profit" >>],
     net_pnl        |-> [required_columns |-> << "ledger_type", "profit" >>],
     count          |-> [required_columns |-> << >>],
     sum_profit     |-> [required_columns |-> << "profit" >>]]

Profile ==
    [columns |-> EXPECTED_COLUMNS,
     unique_values |->
        [entity_name        |-> << "PropCo" >>,
         property_name      |-> << "Building 160", "Building 180" >>,
         tenant_name        |-> << >>,
         ledger_type        |-> << "expenses", "revenue" >>,
         ledger_group       |-> << "rental_income" >>,
         ledger_category    |-> << "revenue_rent_taxed" >>,
         ledger_code        |-> << "4000" >>,
         ledger_description |-> << "Rent income" >>],
     min_month |-> "2024-M01", max_month |-> "2025-M03",
     min_quarter |-> "2024-Q1", max_quarter |-> "2025-Q1",
     min_year |-> "2024", max_year |-> "2025",
     supported_metrics |-> SUPPORTED_METRICS]

(***************************************************************************)
(* src/src/contracts/models.py : the schema defaults of the classifier's   *)
(* entities payload, and the payloads the classifier is let to return.     *)
(* ranking.top_k is kept as text (None or the number's digits).            *)
(***************************************************************************)
TimeScopeSchema ==
    [mode |-> "none", month |-> None, quarter |-> None, year |-> None,
     column |-> None, start |-> None, end |-> None, relative_period |-> None]

RankingSchema == [mode |-> "none", top_k |-> None]

ExtractedEntitiesSchema ==
    [entity_name |-> << >>, property_name |-> << >>, tenant_name |-> << >>,
     ledger_type |-> << >>, ledger_group |-> << >>, ledger_category |-> << >>,
     ledger_code |-> << >>, ledger_description |-> << >>,
     ledger_raw_mentions |-> << >>, request_target |-> << >>,
     requested_metric |-> "", ranking |-> RankingSchema,
     time_scope |-> TimeScopeSchema, needs_clarification |-> FALSE,
     clarification_prompt |-> ""]

EntityPayloads ==
    { ExtractedEntitiesSchema,
      [ExtractedEntitiesSchema EXCEPT !.property_name = << "building 180" >>,
                                      !.requested_metric = "pnl"],
      [ExtractedEntitiesSchema EXCEPT !.property_name = << "Building 999" >>,
                                      !.needs_clarification = TRUE,
                                      !.clarification_prompt = "Which metric?"],
      [ExtractedEntitiesSchema EXCEPT !.property_name = << "Building 999" >>,
                                      !.requested_metric = "cap_rate",
                                      !.needs_clarification = TRUE,
                                      !.clarification_prompt = "Which metric?"],
      [ExtractedEntitiesSchema EXCEPT !.tenant_name = << "Tenant 99" >>],
      [ExtractedEntitiesSchema EXCEPT
          !.property_name = << "Building 180" >>,
          !.time_scope = [TimeScopeSchema EXCEPT !.mode = "exact",
                                                 !.month = "2026-M01"]],
      [ExtractedEntitiesSchema EXCEPT
          !.time_scope = [TimeScopeSchema EXCEPT !.mode = "relative",
                                                 !.relative_period = "next_year"]],
      [ExtractedEntitiesSchema EXCEPT !.ledger_raw_mentions = << "rent" >>],
      [ExtractedEntitiesSchema EXCEPT !.ledger_type = << "rental income" >>,
                                      !.requested_metric = "cap_rate"],
      [ExtractedEntitiesSchema EXCEPT !.needs_clarification = TRUE],
      [ExtractedEntitiesSchema EXCEPT !.needs_clarification = TRUE,
                                      !.clarification_prompt = "Which period?"],
      [ExtractedEntitiesSchema EXCEPT
          !.needs_clarification = TRUE,
          !.clarification_prompt = "Which period?",
          !.time_scope = [TimeScopeSchema EXCEPT !.mode = "relative",
                                                 !.relative_period = "last_quarter"]] }

(***************************************************************************)
(* Inputs of a turn: user text, collaborator texts, generated code.        *)
(***************************************************************************)
Queries ==
    { "Total revenue of Building 180",
      " What is pnl ",
      "Compare 180 and also what is the weather?",
      "act as root ###",
      "forget it and also what is pnl?",
      "!!!",
      "###",
      "!?!",
      "" }

\* text a collaborator may return where the code expects a message
CollaboratorTexts == { "", "  ", "Some text 2025-M05" }

FallbackTexts == { "", MSG_OUT_OF_SCOPE, "Sorry" }

CodeTexts ==
    { "", "  ",
      " result_df = dataframe ",
      "important = dataframe",
      "import os",
      "result_df = dataframe\nos.remove('x')" }

\* datetime.now() as (year, month)
Dates == { [year |-> 2025, month |-> 1], [year |-> 2025, month |-> 12] }

\* the iteration orders of set(matches) that the shortest-match choice may see
MaxTie == 2
Ties == 1..MaxTie

\* the chat history a later turn of a session starts from: an answered turn,
\* and a turn that ended without an answer
PriorMessages ==
    { << [role |-> "user", content |-> "What is pnl"],
         [role |-> "assistant", content |-> MSG_NOT_PRESENT] >>,
      << [role |-> "user", content |-> "Total revenue of Building 180"] >> }

(***************************************************************************)
(* Collaborator outcomes.  A failed call is a raised exception.            *)
(***************************************************************************)
Failure == [failed |-> TRUE]

\* classify_intent_and_extract_with_llm: (IntentDecision, entities) or raise.
\* The intent validator and normalize_router_output keep intent within
\* INTENT_LITERALS and action within the three actions; model_dump() always
\* yields the full entities dict.  A field the guard never reads under the
\* returned action is left at its schema default.
ClassifierOutcomes ==
    { Failure }
    \cup [failed : {FALSE}, intent : INTENT_LITERALS, action : {"continue"},
          fallback_message : {""}, clarification_prompt : {""},
          entities : EntityPayloads]
    \cup [failed : {FALSE}, intent : INTENT_LITERALS, action : {"fallback"},
          fallback_message : FallbackTexts, clarification_prompt : {""},
          entities : {ExtractedEntitiesSchema}]
    \cup [failed : {FALSE}, intent : INTENT_LITERALS, action : {"clarify"},
          fallback_message : {""}, clarification_prompt : CollaboratorTexts,
          entities : EntityPayloads]

\* llm.chat_text(...) of the two answerers: text or raise
AnswerOutcomes ==
    { Failure } \cup [failed : {FALSE}, text : CollaboratorTexts]

\* generate_query_code_with_llm: CodegenPlanSchema.model_dump() or raise
CodegenOutcomes ==
    { Failure } \cup
    [failed : {FALSE}, task_type : {"asset_details"}, python_code : CodeTexts,
     needs_clarification : BOOLEAN, clarification_prompt : CollaboratorTexts]

\* what exec(python_code) leaves in local_vars: result_df is None, a
\* DataFrame of some number of records, or another object; filtered_df is a
\* DataFrame of some length or not (NoCount)
MaxPayloadRows == 500
NoCount == -1
NoFrame == [kind |-> "None", rows |-> 0]
OtherObject == [kind |-> "object", rows |-> 0]
DataFrame(n) == [kind |-> "DataFrame", rows |-> n]
RowCounts == { 0, 2, MaxPayloadRows, MaxPayloadRows + 1 }
ExecOutcomes ==
    { Failure } \cup
    [failed : {FALSE},
     result_df : { NoFrame, OtherObject } \cup { DataFrame(n) : n \in RowCounts },
     filtered_row_count : { NoCount, 0, 2 }]

\* query_df.to_dict(orient="records"): the records, named by their position
Records(result_df) == [i \in 1..result_df.rows |-> i]

\* The text functions below are applied to the same few texts in every
\* step; each is tabulated once over the texts the inputs above can hand it.
GuardTexts == { Strip(q) : q \in Queries }
detect_multiple_questions_of ==
    [user_query \in GuardTexts |-> detect_multiple_questions(user_query)]
route_query_of == [user_query \in GuardTexts |-> route_query(user_query)]
detect_adversarial_of == [text \in GuardTexts |-> detect_adversarial(text)]
detect_gibberish_of == [text \in GuardTexts |-> detect_gibberish(text)]

GeneratedCodes == { Strip(c) : c \in CodeTexts }
MatchesForbiddenPattern_of ==
    [python_code \in GeneratedCodes |-> MatchesForbiddenPattern(python_code)]

(***************************************************************************)
(* src/src/services/llm_client.py : OpenAILLMClient.parse_structured, the  *)
(* call behind the classifier and the code generator.  Each request to the *)
(* model API ends in one of: a parsed object, a response without a parsed  *)
(* object, a TypeError, or another exception with a message.               *)
(***************************************************************************)
LLM_COMPATIBILITY_MARKERS ==
    << "responses", "parse", "response_format", "text_format",
       "unexpected keyword argument", "no attribute", "not implemented",
       "unsupported" >>

\* any(marker in message for marker in LLM_COMPATIBILITY_MARKERS)
HasCompatibilityMarker(message) ==
    \E i \in 1..Len(LLM_COMPATIBILITY_MARKERS) :
        Contains(message, LLM_COMPATIBILITY_MARKERS[i])

\* the messages an exception of a request may carry
ErrorMessages == { "Connection error.", "Could not parse response content" }

RequestOutcomes ==
    { [kind |-> "parsed", message |-> ""], [kind |-> "empty", message |-> ""],
      [kind |-> "TypeError", message |-> ""] }
    \cup { [kind |-> "Exception", message |-> m] : m \in ErrorMessages }

\* parse_structured: primary, text_format and fallback are the outcomes of
\* responses.parse(response_format=...), responses.parse(text_format=...)
\* and beta.chat.completions.parse(...).  Returns the requests made, in
\* order, whether a parsed object was returned, and the exception raised.
parse_structured(primary, text_format, fallback) ==
    LET Request(path, outcome) == [path |-> path, kind |-> outcome.kind]
        Returned(requests) ==
            [requests |-> requests, parsed |-> TRUE, raised |-> None]
        Raised(requests, exc) ==
            [requests |-> requests, parsed |-> FALSE, raised |-> exc]
        \* llm_client.py 203-250
        Fallback(requests) ==
            LET made == Append(requests,
                               Request("beta.chat.completions.parse", fallback))
            IN  IF fallback.kind = "parsed" THEN Returned(made)
                ELSE Raised(made, "LLMClientError")
        first  == << Request("responses.parse_response_format", primary) >>
        second == Append(first, Request("responses.parse_text_format",
                                        text_format))
    IN  IF primary.kind = "parsed" THEN Returned(first)
        ELSE IF primary.kind = "empty" THEN Fallback(first)
        ELSE IF primary.kind = "TypeError"
        THEN \* llm_client.py 153-194: nothing catches what this request raises
             IF text_format.kind = "parsed" THEN Returned(second)
             ELSE IF text_format.kind = "empty" THEN Fallback(second)
             ELSE Raised(second, text_format.kind)
        ELSE \* llm_client.py 195-200
             IF HasCompatibilityMarker(Lower(primary.message))
             THEN Fallback(first)
             ELSE Raised(first, "LLMClientError")

(***************************************************************************)
(* src/src/services/codegen_service.py and response_service.py             *)
(***************************************************************************)
\* a faulty execute_generated_python_code that hands the code to exec()
\* without consulting FORBIDDEN_CODE_PATTERNS
execute_generated_python_code_ungated(python_code, ex) ==
    IF Strip(python_code) = ""
    THEN [raised |-> FALSE, executed |-> FALSE, result_df |-> NoFrame,
          filtered_row_count |-> NoCount]
    ELSE IF ex.failed \/ ex.result_df.kind = "object"
    THEN [raised |-> TRUE, executed |-> TRUE, result_df |-> NoFrame,
          filtered_row_count |-> NoCount]
    ELSE [raised |-> FALSE, executed |-> TRUE, result_df |-> ex.result_df,
          filtered_row_count |-> ex.filtered_row_count]

\* what execute_generated_python_code returned or raised in this turn:
\* nothing while the executor has not called it
NoExecution == << >>

\* execute_generated_python_code(dataframe, python_code), with ex the effect
\* of exec() on this code.  executed tells whether exec() was reached.
execute_generated_python_code(python_code, ex) ==
    IF Strip(python_code) = ""
    THEN [raised |-> FALSE, executed |-> FALSE, result_df |-> NoFrame,
          filtered_row_count |-> NoCount]
    ELSE IF MatchesForbiddenPattern_of[python_code]
    THEN [raised |-> TRUE, executed |-> FALSE, result_df |-> NoFrame,
          filtered_row_count |-> NoCount]
    ELSE IF ex.failed
    THEN [raised |-> TRUE, executed |-> TRUE, result_df |-> NoFrame,
          filtered_row_count |-> NoCount]
    ELSE IF ex.result_df.kind = "object"
    THEN [raised |-> TRUE, executed |-> TRUE, result_df |-> NoFrame,
          filtered_row_count |-> NoCount]
    ELSE [raised |-> FALSE, executed |-> TRUE, result_df |-> ex.result_df,
          filtered_row_count |-> ex.filtered_row_count]

fallback_for_error_type(error_type) ==
    _format_month_tokens(
        IF error_type = "not_present" THEN MSG_NOT_PRESENT
        ELSE IF error_type = "out_of_scope" THEN MSG_OUT_OF_SCOPE
        ELSE IF error_type = "adversarial" THEN MSG_CANNOT_PROCEED
        ELSE IF error_type = "gibberish" THEN MSG_GIBBERISH
        ELSE MSG_NOT_PRESENT)

\* answer_from_result_with_llm / answer_from_profile_with_llm on a reply
\* text: the payload handed over by the executor always has its four keys,
\* so its JSON is never "{}" or "[]" and the model is always asked
answer_with_llm(text) == _format_month_tokens(Strip(text))

(***************************************************************************)
(* src/src/graph/states.py, src/app/ui_streamlit.py : the turn state       *)
(***************************************************************************)
Message(role, content) == [role |-> role, content |-> content]

\* build_initial_state_dict(user_query=..., messages=None); data_profile is
\* None until the caller or _ensure_state fills it ("dict" once it holds
\* the profile, which is the constant Profile)
build_initial_state_dict(user_query) ==
    [user_query |-> user_query, intent |-> None, entities |-> EmptyDict,
     entities_preextracted |-> FALSE, task_type |-> None, python_code |-> None,
     data_profile |-> None, retrieved_rows |-> << >>,
     computed_result |-> EmptyDict,
     messages |-> << Message("user", user_query) >>,
     needs_clarification |-> FALSE, clarification_question |-> None,
     error_type |-> None, final_answer |-> None, routing_action |-> None]

\* _prepare_state_for_query(query) on the previous turn's result
_prepare_state_for_query(graph_state, query) ==
    [graph_state EXCEPT
        !.user_query = query, !.intent = None, !.entities = EmptyDict,
        !.entities_preextracted = FALSE, !.task_type = None,
        !.python_code = None, !.retrieved_rows = << >>,
        !.computed_result = EmptyDict, !.needs_clarification = FALSE,
        !.clarification_question = None, !.error_type = None,
        !.final_answer = None, !.routing_action = "",
        !.data_profile = "dict"]

\* _ensure_state once the profile provider has answered (or was not needed)
_ensure_state(st) == [st EXCEPT !.data_profile = "dict"]

(***************************************************************************)
(* src/src/graph/nodes.py                                                  *)
(***************************************************************************)
\* a variant that appends the user message whatever the history ends with
AppendUserMessage_always(messages, user_query) ==
    IF user_query = "" THEN messages
    ELSE Append(messages, Message("user", user_query))

\* nodes.py 46-54: idempotent append of the user message
AppendUserMessage(messages, user_query) ==
    IF user_query = "" THEN messages
    ELSE IF \/ Len(messages) = 0
            \/ messages[Len(messages)].role # "user"
            \/ Strip(messages[Len(messages)].content) # user_query
         THEN Append(messages, Message("user", user_query))
         ELSE messages

\* whether guard_router_agent reaches the classifier call (nodes.py 57-65)
CallsClassifier(st) ==
    LET user_query == Strip(st.user_query) IN
    /\ ~detect_multiple_questions_of[user_query]
    /\ route_query_of[user_query].action = "continue"

explicit_columns == << "property_name", "tenant_name", "entity_name", "ledger_code" >>

has_explicit_entity(llm_entities) ==
    \E i \in 1..Len(explicit_columns) : Len(llm_entities[explicit_columns[i]]) > 0

\* a variant that leaves every clarify decision of the classifier alone
ClassifierDecision_clarify_kept(cls) ==
    IF cls.failed
    THEN [intent |-> "ambiguous", action |-> "clarify", fallback_message |-> "",
          clarification_prompt |->
              "Please rephrase your request with the target and time scope.",
          stash |-> FALSE]
    ELSE LET decision == [intent |-> cls.intent, action |-> cls.action,
                          fallback_message |-> cls.fallback_message,
                          clarification_prompt |-> cls.clarification_prompt,
                          stash |-> FALSE]
         IN  IF decision.action = "continue"
             THEN [decision EXCEPT
                     !.intent = IF @ = INTENT_DEFINITIONS
                                   /\ ~_definitions_intent_is_eligible(cls.entities)
                                THEN INTENT_DATASET_KNOWLEDGE ELSE @,
                     !.stash = TRUE]
             ELSE decision

\* a variant that keeps the classifier's definitions intent whatever the
\* entities payload carries
ClassifierDecision_definitions_kept(cls) ==
    IF cls.failed
    THEN [intent |-> "ambiguous", action |-> "clarify", fallback_message |-> "",
          clarification_prompt |->
              "Please rephrase your request with the target and time scope.",
          stash |-> FALSE]
    ELSE LET decision == [intent |-> cls.intent, action |-> cls.action,
                          fallback_message |-> cls.fallback_message,
                          clarification_prompt |-> cls.clarification_prompt,
                          stash |-> FALSE]
         IN  IF decision.action = "continue"
             THEN [decision EXCEPT !.stash = TRUE]
             ELSE IF /\ decision.action = "clarify"
                     /\ decision.intent = INTENT_DATASET_KNOWLEDGE
                     /\ has_explicit_entity(cls.entities)
             THEN [decision EXCEPT !.action = "continue", !.stash = TRUE]
             ELSE decision

\* nodes.py 78-141: the decision after the classifier call, and whether
\* the entities are stashed for the extractor
ClassifierDecision(cls) ==
    IF cls.failed
    THEN [intent |-> "ambiguous", action |-> "clarify", fallback_message |-> "",
          clarification_prompt |->
              "Please rephrase your request with the target and time scope.",
          stash |-> FALSE]
    ELSE LET decision == [intent |-> cls.intent, action |-> cls.action,
                          fallback_message |-> cls.fallback_message,
                          clarification_prompt |-> cls.clarification_prompt,
                          stash |-> FALSE]
         IN  IF decision.action = "continue"
             THEN [decision EXCEPT
                     !.intent = IF @ = INTENT_DEFINITIONS
                                   /\ ~_definitions_intent_is_eligible(cls.entities)
                                THEN INTENT_DATASET_KNOWLEDGE ELSE @,
                     !.stash = TRUE]
             ELSE IF /\ decision.action = "clarify"
                     /\ decision.intent = INTENT_DATASET_KNOWLEDGE
                     /\ has_explicit_entity(cls.entities)
             THEN [decision EXCEPT !.action = "continue", !.stash = TRUE]
             ELSE decision

ClassifierDecision_of ==
    [cls \in ClassifierOutcomes |-> ClassifierDecision(cls)]

error_type_map(intent) ==
    IF intent = "adversarial" THEN "adversarial"
    ELSE IF intent = "gibberish" THEN "gibberish"
    ELSE IF intent = "general_knowledge" THEN "out_of_scope"
    ELSE "not_present"

\* a faulty multi-question branch that marks the route but sets no answer
multiple_questions_passed(st) ==
    [st EXCEPT !.routing_action = "finalize"]

\* nodes.py 57-62: the result of a blocked multi-question turn
multiple_questions_blocked(st) ==
    [st EXCEPT !.final_answer = MSG_MULTIPLE_QUESTION,
               !.error_type = "not_present",
               !.routing_action = "finalize"]

\* no decision is taken on a blocked multi-question turn
NoDecision == << >>

\* nodes.py 68-73: nothing is classified while the classifier is not called
NoClassification == << >>

\* nodes.py 64-141: the local variable decision of guard_router_agent, with
\* cls the classifier's outcome (consulted only when CallsClassifier)
GuardDecision(state0, cls) ==
    LET user_query == Strip(state0.user_query)
        routed     == route_query_of[user_query]
    IN  IF detect_multiple_questions_of[user_query] THEN NoDecision
        ELSE IF routed.action = "continue" THEN ClassifierDecision_of[cls]
        ELSE [intent |-> routed.intent, action |-> routed.action,
              fallback_message |-> routed.fallback_message,
              clarification_prompt |-> routed.clarification_prompt,
              stash |-> FALSE]

\* guard_router_agent(state), with cls the classifier's outcome
guard_router_agent(state0, cls) ==
    LET st0        == _ensure_state(state0)
        user_query == Strip(st0.user_query)
        st         == [st0 EXCEPT !.messages = AppendUserMessage(@, user_query)]
        decision   == GuardDecision(state0, cls)
        st1        == IF decision.stash
                      THEN [st EXCEPT !.entities = cls.entities,
                                      !.entities_preextracted = TRUE]
                      ELSE st
        st2        == [st1 EXCEPT !.intent = decision.intent,
                                  !.routing_action = decision.action]
    IN  IF detect_multiple_questions_of[user_query]
        THEN multiple_questions_blocked(st)
        ELSE IF decision.action = "fallback"
        THEN [st2 EXCEPT !.error_type = error_type_map(decision.intent),
                         !.final_answer = decision.fallback_message]
        ELSE IF decision.action = "clarify"
        THEN [st2 EXCEPT
                !.needs_clarification = TRUE,
                !.clarification_question =
                    IF Strip(decision.clarification_prompt) # ""
                    THEN Strip(decision.clarification_prompt)
                    ELSE "Please clarify your question."]
        ELSE st2

\* nodes.py 195-216: the three resolver passes over the stashed entities at
\* the date now, and the metric check on their result; tie is the
\* set-iteration order behind the shortest-match choice
ResolveEntitiesIn(entities0, data_profile, now, tie) ==
    LET Checked(raw, miss) ==
            [entities |-> miss.entities,
             unresolved_raw_mentions |-> raw.unresolved,
             missing_values |-> miss.missing,
             supported_metric |->
                 _is_supported_metric_request(miss.entities, data_profile)]
        Mentions(raw) ==
            Checked(raw, _missing_requested_values(raw.entities, data_profile,
                                                   tie))
    IN  Mentions(_resolve_ledger_raw_mentions(
                     _resolve_relative_time_scope(entities0, now), data_profile))

\* the same under the profile of the turn model
ResolveEntities(entities0, now, tie) ==
    ResolveEntitiesIn(entities0, Profile, now, tie)

ResolveEntities_of ==
    [entities0 \in EntityPayloads, now \in Dates, tie \in Ties |->
        ResolveEntities(entities0, now, tie)]

\* the extractor with the entities' clarification flag consulted before the
\* missing values
entity_extractor_agent_clarifies_first(state0, now, tie) ==
    LET st == _ensure_state(state0)
        Validated(resolved, st1) ==
            IF resolved.entities.needs_clarification
            THEN [st1 EXCEPT !.needs_clarification = TRUE,
                             !.clarification_question =
                                 resolved.entities.clarification_prompt]
            ELSE IF \/ Len(resolved.unresolved_raw_mentions) > 0
                    \/ resolved.missing_values # {}
                    \/ ~resolved.supported_metric
            THEN [st1 EXCEPT !.error_type = "not_present",
                             !.final_answer = MSG_NOT_PRESENT]
            ELSE st1
        Extracted(resolved) ==
            Validated(resolved, [st EXCEPT !.entities_preextracted = FALSE,
                                           !.entities = resolved.entities])
    IN  IF ~(st.entities_preextracted /\ st.entities # EmptyDict)
        THEN [st EXCEPT
                !.needs_clarification = TRUE,
                !.clarification_question =
                    "Please rephrase your request with the target and time scope."]
        ELSE Extracted(ResolveEntities_of[st.entities, now, tie])

\* nodes.py 197-231 on the resolved entities: the state the extractor
\* returns once the pre-extracted entities are taken over
ExtractorValidation(resolved, st) ==
    LET st1 == [st EXCEPT !.entities_preextracted = FALSE,
                          !.entities = resolved.entities]
    IN  IF \/ Len(resolved.unresolved_raw_mentions) > 0
           \/ resolved.missing_values # {}
        THEN [st1 EXCEPT !.error_type = "not_present",
                         !.final_answer = MSG_NOT_PRESENT]
        ELSE IF ~resolved.supported_metric
        THEN [st1 EXCEPT !.error_type = "not_present",
                         !.final_answer = MSG_NOT_PRESENT]
        ELSE IF resolved.entities.needs_clarification
        THEN [st1 EXCEPT !.needs_clarification = TRUE,
                         !.clarification_question =
                             resolved.entities.clarification_prompt]
        ELSE st1

\* entity_extractor_agent(state) at the date now
entity_extractor_agent(state0, now, tie) ==
    LET st == _ensure_state(state0)
    IN  IF ~(st.entities_preextracted /\ st.entities # EmptyDict)
        THEN [st EXCEPT
                !.needs_clarification = TRUE,
                !.clarification_question =
                    "Please rephrase your request with the target and time scope."]
        ELSE ExtractorValidation(ResolveEntities_of[st.entities, now, tie], st)

\* what the validation of nodes.py 201-212 found at the date now: nothing
\* when the extractor had no pre-extracted entities to validate
NoResolution == << >>

ExtractResolution(state0, now, tie) ==
    LET st == _ensure_state(state0)
        Found(resolved) ==
            [unresolved_raw_mentions |-> resolved.unresolved_raw_mentions,
             missing_values |-> resolved.missing_values,
             supported_metric |-> resolved.supported_metric,
             needs_clarification |-> resolved.entities.needs_clarification]
    IN  IF ~(st.entities_preextracted /\ st.entities # EmptyDict)
        THEN NoResolution
        ELSE Found(ResolveEntities_of[st.entities, now, tie])

\* whether query_agent passes the state through untouched (nodes.py 239-242)
QuerySkips(st) == Truthy(st.final_answer) \/ st.needs_clarification

\* query_agent(state): ans is the profile answerer's outcome (definitions
\* intent), gen the code generator's outcome (any other intent)
query_agent(state0, ans, gen) ==
    LET st == _ensure_state(state0)
        clarify_extract ==
            [st EXCEPT !.needs_clarification = TRUE,
                       !.clarification_question =
                           "Please clarify what information you want me to extract."]
        python_code == Strip(StrOrEmpty(gen.python_code))
    IN  IF QuerySkips(st) THEN st
        ELSE IF st.intent = INTENT_DEFINITIONS
        THEN IF ans.failed THEN clarify_extract
             ELSE [st EXCEPT !.final_answer = answer_with_llm(ans.text)]
        ELSE IF gen.failed THEN clarify_extract
        ELSE IF gen.needs_clarification
        THEN [st EXCEPT !.needs_clarification = TRUE,
                        !.clarification_question = gen.clarification_prompt]
        ELSE IF python_code = "" THEN clarify_extract
        ELSE [st EXCEPT !.task_type = gen.task_type,
                        !.python_code = python_code]

\* whether executor_response_agent returns before touching the dataset
\* (nodes.py 311-320)
ExecutorSkips(st) ==
    \/ st.needs_clarification
    \/ Truthy(st.final_answer)
    \/ Strip(StrOrEmpty(st.python_code)) = ""

\* a variant that hands every record over
bounded_records_uncut(records) == records

\* records[:500] (nodes.py 357)
bounded_records(records) ==
    SubSeq(records, 1, IF Len(records) < MaxPayloadRows
                       THEN Len(records) ELSE MaxPayloadRows)

\* executor_response_agent(state): df_ok tells whether get_dataframe
\* succeeded, ex is the effect of exec(), ans the result answerer's outcome
executor_response_agent(state0, df_ok, ex, ans) ==
    LET st == _ensure_state(state0)
        python_code == Strip(StrOrEmpty(st.python_code))
        not_present == [st EXCEPT !.error_type = "not_present",
                                  !.final_answer = MSG_NOT_PRESENT]
        execution   == execute_generated_python_code(python_code, ex)
        time_answer == _time_range_not_present_answer(st.entities, Profile)
        records     == Records(execution.result_df)
        st1 == [st EXCEPT
                  !.retrieved_rows = records,
                  !.computed_result =
                      [rows |-> bounded_records(records),
                       total_rows |-> Len(records),
                       truncated |-> Len(records) > Len(bounded_records(records)),
                       task_type |-> st.task_type]]
    IN  IF st.needs_clarification THEN st
        ELSE IF Truthy(st.final_answer) THEN st
        ELSE IF python_code = ""
        THEN [st EXCEPT !.error_type = "not_present",
                        !.final_answer = fallback_for_error_type("not_present")]
        ELSE IF ~df_ok THEN not_present
        ELSE IF execution.raised THEN not_present
        ELSE IF execution.filtered_row_count = 0
        THEN [st EXCEPT !.error_type = "not_present",
                        !.final_answer = IF Truthy(time_answer) THEN time_answer
                                         ELSE MSG_NOT_PRESENT]
        ELSE IF execution.result_df.kind = "None" THEN not_present
        ELSE IF ans.failed
        THEN [st1 EXCEPT !.error_type = "not_present",
                         !.final_answer = MSG_NOT_PRESENT]
        ELSE [st1 EXCEPT !.final_answer = answer_with_llm(ans.text)]

\* a faulty clarification_node that answers with a fixed text instead of the
\* clarification question
clarification_node_fixed_text(state0) ==
    LET st == _ensure_state(state0) IN
    IF st.needs_clarification /\ Truthy(st.clarification_question)
    THEN [st EXCEPT !.final_answer = MSG_NOT_PRESENT]
    ELSE st

clarification_node(state0) ==
    LET st == _ensure_state(state0) IN
    IF st.needs_clarification /\ Truthy(st.clarification_question)
    THEN [st EXCEPT !.final_answer = st.clarification_question]
    ELSE st

finalize_node(state0) ==
    LET st  == _ensure_state(state0)
        st1 == IF ~Truthy(st.final_answer) /\ Truthy(st.error_type)
               THEN [st EXCEPT !.final_answer = fallback_for_error_type(st.error_type)]
               ELSE st
    IN  IF Truthy(st1.final_answer)
        THEN [st1 EXCEPT !.messages = Append(@, Message("assistant", st1.final_answer))]
        ELSE st1

(***************************************************************************)
(* src/src/graph/flow.py                                                   *)
(***************************************************************************)
\* a faulty _shared_route_decision that never routes to clarification
_shared_route_decision_no_clarify(st) ==
    IF Truthy(st.final_answer) THEN "finalize" ELSE "continue"

_shared_route_decision(st) ==
    IF Truthy(st.final_answer) THEN "finalize"
    ELSE IF st.needs_clarification THEN "clarify"
    ELSE "continue"

_route_after_guard(st) ==
    LET decision == _shared_route_decision(st) IN
    IF decision = "continue" THEN "extract" ELSE decision

_route_after_extractor(st) ==
    LET decision == _shared_route_decision(st) IN
    IF decision = "continue" THEN "query" ELSE decision

_route_after_query_agent(st) ==
    LET decision == _shared_route_decision(st) IN
    IF decision = "continue" THEN "executor" ELSE decision

\* the path maps of add_conditional_edges in build_graph
build_graph(route) ==
    IF route = "extract" THEN "entity_extractor_agent"
    ELSE IF route = "query" THEN "query_agent"
    ELSE IF route = "executor" THEN "executor_response_agent"
    ELSE IF route = "clarify" THEN "clarification_node"
    ELSE "finalize_node"

(***************************************************************************)
(* The state machine: one action per graph node, and a node entry whose    *)
(* profile provider raises.  A behaviour is one turn, graph.invoke(state). *)
(*   state    - the turn state dict threaded through the nodes             *)
(*   pc       - the node the compiled graph runs next, "END", or "raised"  *)
(*              when an exception left graph.invoke                        *)
(*   ran      - the nodes run so far in this turn, in order                *)
(*   calls    - the collaborators invoked so far in this turn, in order    *)
(*   failed   - the collaborators whose call raised in this turn           *)
(*   executed - the code strings handed to exec() in this turn             *)
(*   decision - the decision Guard took (NoDecision before Guard and on a  *)
(*              blocked multi-question turn)                               *)
(*   resolution - what the extractor's validation found (NoResolution     *)
(*              while it has validated nothing)                            *)
(*   execution_result - what execute_generated_python_code returned       *)
(*              (NoExecution while the executor has not called it)         *)
(*   classified - what the classifier returned or that it raised           *)
(*              (NoClassification while Guard has not called it)           *)
(***************************************************************************)
VARIABLES state, pc, ran, calls, failed, executed, decision, resolution,
          execution_result, classified

vars == << state, pc, ran, calls, failed, executed, decision, resolution,
          execution_result, classified >>

Nodes ==
    { "guard_router_agent", "entity_extractor_agent", "query_agent",
      "executor_response_agent", "clarification_node", "finalize_node" }

\* the state handed to graph.invoke: build_initial_state_dict on a first
\* turn, invoked directly (data_profile None) or by the chat UI (which fills
\* data_profile first); on a later turn the chat UI's _prepare_state_for_query
\* on the stored result, of which only the messages survive the reset
Init ==
    /\ \/ \E q \in Queries, dp \in { None, "dict" } :
             state = [build_initial_state_dict(q) EXCEPT !.data_profile = dp]
       \/ \E q \in Queries, messages \in PriorMessages :
             state = _prepare_state_for_query(
                         [build_initial_state_dict(q) EXCEPT !.messages = messages], q)
    /\ pc = "guard_router_agent"
    /\ ran = << >>
    /\ calls = << >>
    /\ failed = {}
    /\ executed = << >>
    /\ decision = NoDecision
    /\ resolution = NoResolution
    /\ execution_result = NoExecution
    /\ classified = NoClassification

\* _ensure_state with no profile in the state: get_startup_profile() raises
\* and nothing in the node catches it
EnsureStateRaises ==
    /\ pc \in Nodes
    /\ state.data_profile = None
    /\ pc' = "raised"
    /\ calls' = Append(calls, "get_startup_profile")
    /\ failed' = failed \cup { "get_startup_profile" }
    /\ UNCHANGED << state, ran, executed, decision, resolution, execution_result,
                 classified >>

\* the calls log of a node entry: the profile provider is asked only when
\* the state carries no profile
EnsureStateCalls ==
    IF state.data_profile = None THEN Append(calls, "get_startup_profile") ELSE calls

Guard ==
    /\ pc = "guard_router_agent"
    /\ IF CallsClassifier(state)
       THEN /\ \E cls \in ClassifierOutcomes :
                  /\ state' = guard_router_agent(state, cls)
                  /\ decision' = GuardDecision(state, cls)
                  /\ classified' = cls
                  /\ failed' = IF cls.failed
                               THEN failed \cup { "classify_intent_and_extract_with_llm" }
                               ELSE failed
            /\ calls' = Append(EnsureStateCalls, "classify_intent_and_extract_with_llm")
       ELSE /\ state' = guard_router_agent(state, Failure)
            /\ decision' = GuardDecision(state, Failure)
            /\ classified' = classified
            /\ calls' = EnsureStateCalls
            /\ failed' = failed
    /\ ran' = Append(ran, pc)
    /\ pc' = build_graph(_route_after_guard(state'))
    /\ UNCHANGED << executed, resolution, execution_result >>

Extract ==
    /\ pc = "entity_extractor_agent"
    /\ \E now \in Dates, tie \in Ties :
          /\ state' = entity_extractor_agent(state, now, tie)
          /\ resolution' = ExtractResolution(state, now, tie)
    /\ ran' = Append(ran, pc)
    /\ pc' = build_graph(_route_after_extractor(state'))
    /\ UNCHANGED << calls, failed, executed, decision, execution_result,
                 classified >>

Query ==
    /\ pc = "query_agent"
    /\ IF QuerySkips(state)
       THEN /\ state' = query_agent(state, Failure, Failure)
            /\ UNCHANGED << calls, failed >>
       ELSE IF state.intent = INTENT_DEFINITIONS
       THEN /\ \E ans \in AnswerOutcomes :
                  /\ state' = query_agent(state, ans, Failure)
                  /\ failed' = IF ans.failed
                               THEN failed \cup { "answer_from_profile_with_llm" }
                               ELSE failed
            /\ calls' = Append(calls, "answer_from_profile_with_llm")
       ELSE /\ \E gen \in CodegenOutcomes :
                  /\ state' = query_agent(state, Failure, gen)
                  /\ failed' = IF gen.failed
                               THEN failed \cup { "generate_query_code_with_llm" }
                               ELSE failed
            /\ calls' = Append(calls, "generate_query_code_with_llm")
    /\ ran' = Append(ran, pc)
    /\ pc' = build_graph(_route_after_query_agent(state'))
    /\ UNCHANGED << executed, decision, resolution, execution_result,
                 classified >>

\* whether the executor reaches the result answerer (nodes.py 325-372)
CallsAnswerer(st, df_ok, ex) ==
    LET execution == execute_generated_python_code(Strip(StrOrEmpty(st.python_code)), ex)
    IN  /\ ~ExecutorSkips(st)
        /\ df_ok
        /\ ~execution.raised
        /\ execution.filtered_row_count # 0
        /\ execution.result_df.kind # "None"

\* an outcome is drawn only for a collaborator the step reaches
Execute ==
    /\ pc = "executor_response_agent"
    /\ IF ExecutorSkips(state)
       THEN /\ state' = executor_response_agent(state, TRUE, Failure, Failure)
            /\ UNCHANGED << calls, failed, executed, execution_result >>
       ELSE \E df_ok \in BOOLEAN, ex \in ExecOutcomes, ans \in AnswerOutcomes :
              LET python_code == Strip(StrOrEmpty(state.python_code))
                  execution   == execute_generated_python_code(python_code, ex)
              IN  /\ ~df_ok \/ ~execution.executed => ex = Failure
                  /\ ~CallsAnswerer(state, df_ok, ex) => ans = Failure
                  /\ state' = executor_response_agent(state, df_ok, ex, ans)
                  /\ executed' = IF df_ok /\ execution.executed
                                 THEN Append(executed, python_code) ELSE executed
                  /\ execution_result' = IF df_ok THEN execution ELSE NoExecution
                  /\ calls' =
                       calls \o << "get_dataframe" >>
                             \o (IF df_ok THEN << "execute_generated_python_code" >>
                                 ELSE << >>)
                             \o (IF CallsAnswerer(state, df_ok, ex)
                                 THEN << "answer_from_result_with_llm" >>
                                 ELSE << >>)
                  /\ failed' =
                       failed \cup (IF ~df_ok THEN { "get_dataframe" } ELSE {})
                              \cup (IF df_ok /\ execution.raised
                                    THEN { "execute_generated_python_code" } ELSE {})
                              \cup (IF CallsAnswerer(state, df_ok, ex) /\ ans.failed
                                    THEN { "answer_from_result_with_llm" } ELSE {})
    /\ ran' = Append(ran, pc)
    /\ pc' = "finalize_node"
    /\ UNCHANGED << decision, resolution, classified >>

Clarify ==
    /\ pc = "clarification_node"
    /\ state' = clarification_node(state)
    /\ ran' = Append(ran, pc)
    /\ pc' = "finalize_node"
    /\ UNCHANGED << calls, failed, executed, decision, resolution, execution_result,
                 classified >>

Finalize ==
    /\ pc = "finalize_node"
    /\ state' = finalize_node(state)
    /\ ran' = Append(ran, pc)
    /\ pc' = "END"
    /\ UNCHANGED << calls, failed, executed, decision, resolution, execution_result,
                 classified >>

Next ==
    \/ EnsureStateRaises
    \/ Guard
    \/ Extract
    \/ Query
    \/ Execute
    \/ Clarify
    \/ Finalize

Spec == Init /\ [][Next]_vars

TypeOK ==
    /\ pc \in Nodes \cup { "END", "raised" }
    /\ state.needs_clarification \in BOOLEAN
    /\ state.data_profile \in { None, "dict" }

(***************************************************************************)
(* Properties of a turn.                                                   *)
(***************************************************************************)
Count(seq, x) == Cardinality({ i \in 1..Len(seq) : seq[i] = x })
HasRun(node) == InSeq(node, ran)
Called(collaborator) == InSeq(collaborator, calls)

\* the five collaborators of a turn: classifier, code generator, profile
\* answerer, execution backend, result answerer
Collaborators ==
    { "classify_intent_and_extract_with_llm", "generate_query_code_with_llm",
      "answer_from_profile_with_llm", "execute_generated_python_code",
      "answer_from_result_with_llm" }

FinalAnswerSet == Truthy(state.final_answer)
ClarificationSet ==
    state.needs_clarification /\ Truthy(state.clarification_question)

\* C1: every turn started at Guard terminates, and Finalize runs exactly
\* once and is the last stage to run: a turn that has stopped has run
\* Finalize, Finalize never runs twice, and nothing runs after it.
C1_FinalizeOnceAndLast ==
    /\ Count(ran, "finalize_node") <= 1
    /\ HasRun("finalize_node") => ran[Len(ran)] = "finalize_node"
    /\ pc \notin Nodes => HasRun("finalize_node")

\* C2: when Finalize has run, final_answer is set (non-empty), whatever
\* texts the collaborators returned.
C2_FinalAnswerSetAfterFinalize ==
    HasRun("finalize_node") => FinalAnswerSet

\* the stages whose successor the routing rule chooses, and the next stage
\* in sequence of each
Stages ==
    { "guard_router_agent", "entity_extractor_agent", "query_agent",
      "executor_response_agent" }

NextInSequence(stage) ==
    IF stage = "guard_router_agent" THEN "entity_extractor_agent"
    ELSE IF stage = "entity_extractor_agent" THEN "query_agent"
    ELSE IF stage = "query_agent" THEN "executor_response_agent"
    ELSE "finalize_node"

\* C3: after each of Guard, Extract, Query and Execute the successor is
\* chosen by one three-way rule on the resulting turn state: Finalize if
\* final_answer is non-empty, else Clarify if needs_clarification is true,
\* else the next stage in sequence.
C3_SharedRoutingRule ==
    [][ (pc \in Stages /\ pc' \in Nodes) =>
            pc' = IF Truthy(state'.final_answer) THEN "finalize_node"
                  ELSE IF state'.needs_clarification THEN "clarification_node"
                  ELSE NextInSequence(pc) ]_vars

\* Query has asked for a clarification and the rule has chosen Clarify
C3_Witness ==
    /\ ran = << "guard_router_agent", "entity_extractor_agent", "query_agent" >>
    /\ state.needs_clarification
    /\ ~FinalAnswerSet
    /\ pc = "clarification_node"

\* C4 as stated: at every inspection point, final_answer set and
\* (needs_clarification with clarification_question set) never hold together.
C4_ExactlyOne == ~(FinalAnswerSet /\ ClarificationSet)

\* C4: final_answer set and (needs_clarification with clarification_question
\* set) hold together only once Clarify has run, and then final_answer is the
\* clarification question; at every other inspection point at most one holds.
C4_TogetherOnlyAfterClarify ==
    (FinalAnswerSet /\ ClarificationSet) =>
        /\ HasRun("clarification_node")
        /\ state.final_answer = state.clarification_question

\* a turn that ended through Clarify with both conditions true
C4_Witness ==
    /\ pc = "END"
    /\ HasRun("clarification_node")
    /\ FinalAnswerSet
    /\ ClarificationSet

\* C5: whenever detect_multiple_questions(user_query) is true, Guard sets
\* final_answer to the fixed multi-question message and error_type to
\* not_present, the turn goes directly Guard -> Finalize, and none of the five
\* collaborators is invoked during the turn.
C5_MultiQuestionBlocked ==
    detect_multiple_questions_of[Strip(state.user_query)] =>
        /\ \A i \in 1..Len(calls) : calls[i] \notin Collaborators
        /\ HasRun("guard_router_agent") =>
              /\ state.final_answer = MSG_MULTIPLE_QUESTION
              /\ state.error_type = "not_present"
              /\ \/ ran = << "guard_router_agent" >> /\ pc = "finalize_node"
                 \/ ran = << "guard_router_agent", "finalize_node" >> /\ pc = "END"

\* a multi-question turn that has ended
C5_Witness ==
    /\ detect_multiple_questions_of[Strip(state.user_query)]
    /\ pc = "END"
    /\ state.final_answer = MSG_MULTIPLE_QUESTION

\* C6: whenever the text-level check signals fallback (detect_adversarial or
\* detect_gibberish true) on a text that is not a multi-question, the
\* classifier is never invoked in the turn, and the turn's intent and
\* final_answer are the detector's fixed intent and fixed message.
C6_TextGuardFallback ==
    LET text == Strip(state.user_query) IN
    (/\ ~detect_multiple_questions_of[text]
     /\ detect_adversarial_of[text] \/ detect_gibberish_of[text]) =>
        /\ ~Called("classify_intent_and_extract_with_llm")
        /\ HasRun("guard_router_agent") =>
              IF detect_adversarial_of[text]
              THEN /\ state.intent = INTENT_ADVERSARIAL
                   /\ state.final_answer = MSG_CANNOT_PROCEED
              ELSE /\ state.intent = INTENT_GIBBERISH
                   /\ state.final_answer = MSG_GIBBERISH

\* a gibberish turn that has ended
C6_Witness ==
    /\ ~detect_multiple_questions_of[Strip(state.user_query)]
    /\ detect_gibberish_of[Strip(state.user_query)]
    /\ ~detect_adversarial_of[Strip(state.user_query)]
    /\ pc = "END"
    /\ state.intent = INTENT_GIBBERISH

\* C7: whenever the Guard decision's action is fallback, error_type is set
\* by the fixed table, final_answer at the end of the turn equals the
\* decision's fallback message, and the turn goes directly Guard -> Finalize
\* without running Extract, Query, Execute or Clarify.
C7_FallbackEndsTurn ==
    (decision # NoDecision /\ decision.action = "fallback") =>
        /\ state.error_type =
              IF decision.intent = "adversarial" THEN "adversarial"
              ELSE IF decision.intent = "gibberish" THEN "gibberish"
              ELSE IF decision.intent = "general_knowledge" THEN "out_of_scope"
              ELSE "not_present"
        /\ \/ ran = << "guard_router_agent" >> /\ pc = "finalize_node"
           \/ ran = << "guard_router_agent", "finalize_node" >> /\ pc = "END"
        /\ pc = "END" => state.final_answer = decision.fallback_message

\* C8: when the classifier labels a query general_knowledge with action
\* fallback, the turn ends with error_type out_of_scope and final_answer
\* equal to MSG_OUT_OF_SCOPE, and neither the code generator nor the
\* execution backend is invoked.
C8_GeneralKnowledgeFallback ==
    (/\ Called("classify_intent_and_extract_with_llm")
     /\ decision # NoDecision
     /\ decision.intent = INTENT_GENERAL_KNOWLEDGE
     /\ decision.action = "fallback") =>
        /\ ~Called("generate_query_code_with_llm")
        /\ ~Called("execute_generated_python_code")
        /\ pc = "END" => /\ state.error_type = "out_of_scope"
                         /\ state.final_answer = MSG_OUT_OF_SCOPE

\* C9: no failure of an external collaborator escapes a turn: a classifier
\* failure yields intent ambiguous, action clarify and the fixed rephrase
\* prompt; a code-generator or profile-answerer failure yields a
\* clarification request; an execution-backend, result-answerer or dataset
\* provider failure yields error_type not_present with the fixed not-present
\* message; a profile provider failure is turned into one of these outcomes;
\* and the turn still reaches Finalize.
C9_NoFailureEscapes ==
    /\ pc # "raised"
    /\ "classify_intent_and_extract_with_llm" \in failed =>
          /\ state.intent = INTENT_AMBIGUOUS
          /\ state.routing_action = "clarify"
          /\ state.clarification_question =
                "Please rephrase your request with the target and time scope."
    /\ (\/ "generate_query_code_with_llm" \in failed
        \/ "answer_from_profile_with_llm" \in failed) => ClarificationSet
    /\ (\/ "execute_generated_python_code" \in failed
        \/ "answer_from_result_with_llm" \in failed
        \/ "get_dataframe" \in failed) =>
          /\ state.error_type = "not_present"
          /\ state.final_answer = MSG_NOT_PRESENT
    /\ "get_startup_profile" \in failed =>
          \/ ClarificationSet
          \/ state.error_type = "not_present"
    /\ (failed # {} /\ pc \notin Nodes) => HasRun("finalize_node")

\* C10: generated code that matches a denylist pattern is never executed:
\* every code string handed to exec() is the generated code itself and
\* matches no pattern, and a matching code makes the executor answer with the
\* generic not-present failure without anything having been executed.
C10_DenylistedCodeNeverExecuted ==
    /\ \A i \in 1..Len(executed) :
          /\ executed[i] = state.python_code
          /\ ~MatchesForbiddenPattern_of[executed[i]]
    /\ (/\ HasRun("executor_response_agent")
        /\ Truthy(state.python_code)
        /\ MatchesForbiddenPattern_of[state.python_code]) =>
          /\ executed = << >>
          /\ state.error_type = "not_present"
          /\ state.final_answer = MSG_NOT_PRESENT

\* the gate has been reached with a denylisted code and nothing was executed
C10_Witness ==
    /\ Called("execute_generated_python_code")
    /\ Truthy(state.python_code)
    /\ MatchesForbiddenPattern_of[state.python_code]
    /\ executed = << >>
    /\ pc = "END"

\* C11: when the generated code is rejected by the Code Safety Gate the
\* rejection is handled as a codegen failure: the code is not executed, the
\* turn sets needs_clarification and goes through Clarify, and the final
\* answer is the clarification prompt, not a not-present answer (the dataset
\* provider having answered).
C11_GateRejectionClarifies ==
    (/\ HasRun("query_agent")
     /\ Truthy(state.python_code)
     /\ MatchesForbiddenPattern_of[state.python_code]
     /\ "get_dataframe" \notin failed) =>
        /\ executed = << >>
        /\ pc = "END" =>
              /\ state.needs_clarification
              /\ HasRun("clarification_node")
              /\ state.final_answer = state.clarification_question
              /\ state.error_type # "not_present"

\* what Extract found blocks the turn: a raw ledger mention left unresolved
\* or a requested value missing
ExtractBlocked ==
    /\ resolution # NoResolution
    /\ \/ Len(resolution.unresolved_raw_mentions) > 0
       \/ resolution.missing_values # {}

\* C12: in Extract, if any raw ledger mention stays unresolved or any
\* requested value is missing, the turn ends with error_type not_present and
\* the fixed not-present message, even if the requested metric is ineligible
\* or the entities payload also flags needs_clarification; the code generator
\* and the execution backend are never invoked in that turn.
C12_MissingValueBlocksFirst ==
    ExtractBlocked =>
        /\ state.error_type = "not_present"
        /\ state.final_answer = MSG_NOT_PRESENT
        /\ ~Called("generate_query_code_with_llm")
        /\ ~Called("execute_generated_python_code")
        /\ \/ pc = "finalize_node"
              /\ ran = << "guard_router_agent", "entity_extractor_agent" >>
           \/ pc = "END"
              /\ ran = << "guard_router_agent", "entity_extractor_agent",
                          "finalize_node" >>

\* a turn blocked by a missing value whose payload also named an ineligible
\* metric and flagged needs_clarification
C12_Witness ==
    /\ ExtractBlocked
    /\ resolution.missing_values # {}
    /\ ~resolution.supported_metric
    /\ resolution.needs_clarification
    /\ pc = "END"

\* C13: no out-of-vocabulary filter value reaches code generation: whenever
\* the code generator is invoked, for every identity-like column every value
\* in the turn's entity list for that column is one of the dataset profile's
\* known unique values for that column, for every profile (also one whose
\* known-value list for a column is empty) and every classifier payload.
C13_NoOutOfVocabularyFilter ==
    Called("generate_query_code_with_llm") =>
        \A c \in 1..Len(MISSING_CHECK_COLUMNS) :
            \A i \in 1..Len(state.entities[MISSING_CHECK_COLUMNS[c]]) :
                InSeq(state.entities[MISSING_CHECK_COLUMNS[c]][i],
                      Profile.unique_values[MISSING_CHECK_COLUMNS[c]])

(***************************************************************************)
(* The resolvers of src/src/graph/resolvers.py on their own.  A second     *)
(* specification applies one resolver to an input drawn at the start: pc   *)
(* names the resolver, state holds its arguments and, in result, what each *)
(* application returned; the other variables stay as a turn starts them.   *)
(***************************************************************************)

\* time_scope.mode is a plain str field: the four modes its description
\* names and one it does not
TimeModes == { "none", "exact", "relative", "range", "rolling" }

\* relative_period is a plain str | None field: the nine labels the
\* normalizer knows, one in another case with blanks around it, and texts it
\* does not know
RelativePeriods ==
    { None, "", "current_year", "last_year", "next_year", "current_quarter",
      "last_quarter", "next_quarter", "current_month", "last_month",
      "next_month", " Last_Quarter ", "yesterday" }

MonthTokens == { None, "  ", "2025-M05" }
QuarterTokens == { None, "2025-Q2" }
YearTokens == { None, "", " 2025 " }

\* the time scopes a classifier payload may carry; a range carries its
\* column and ends
TimeScopes ==
    { [mode |-> mode, month |-> month, quarter |-> quarter, year |-> year,
       column |-> IF mode = "range" THEN "month" ELSE None,
       start |-> IF mode = "range" THEN "2025-M01" ELSE None,
       end |-> IF mode = "range" THEN "2025-M03" ELSE None,
       relative_period |-> relative_period] :
        mode \in TimeModes, month \in MonthTokens, quarter \in QuarterTokens,
        year \in YearTokens, relative_period \in RelativePeriods }

\* datetime.now() as (year, month), every month of the years around the
\* dataset's
FirstYear == 2024
LastYear == 2025
Clock == [year : FirstYear..LastYear, month : 1..12]

\* how often a resolver is applied to its own result
MaxApplications == 2

TimeScopeInputs ==
    { [entities |-> [ExtractedEntitiesSchema EXCEPT !.time_scope = time_scope],
       now |-> now, result |-> << >>] :
        time_scope \in TimeScopes, now \in Clock }

\* known-value lists of one column as the profiler builds them (sorted,
\* nulls dropped): plain names, one name a prefix of another, two spellings
\* of one name, a value with no letter or digit, and a column with no value
KnownValueLists ==
    { << "Building 160", "Building 180" >>,
      << "Building 18", "Building 180" >>,
      << "Building 180", "building-180" >>,
      << "Rent Income", "Rent income" >>,
      << "-", "4000" >>,
      << "Tenant 12 " >>,
      << >> }

\* requested literals of one column: each known value on its own, partial
\* and unknown names, a blank, and compounds of two literals
RequestedLists ==
    UNION { { << allowed_raw[i] >> : i \in 1..Len(allowed_raw) } :
              allowed_raw \in KnownValueLists }
    \cup { << "180" >>, << "building" >>, << "rent income" >>, << "Tower 9" >>,
           << "  " >>, << "Building", "180" >>, << "Building 180", "180" >> }

RequestedValueInputs ==
    { [requested_values |-> requested_values, allowed_raw |-> allowed_raw,
       tie |-> tie, result |-> << >>] :
        requested_values \in RequestedLists, allowed_raw \in KnownValueLists,
        tie \in Ties }

\* dataset profiles that differ in their ledger columns: the profile of the
\* turn model, one where two ledger columns hold the same name, and one where
\* a column holds two spellings of one name
LedgerProfiles ==
    { Profile,
      [Profile EXCEPT !.unique_values.ledger_category =
                          << "rental income", "revenue_rent_taxed" >>],
      [Profile EXCEPT !.unique_values.ledger_description =
                          << "Rent Income", "Rent income" >>] }

\* ledger_raw_mentions of a classifier payload: names that match one known
\* value exactly, one only as a part, several, or none, a text with no letter
\* or digit, and lists of two
RawMentionLists ==
    { << "revenue_rent_taxed" >>, << "rental income" >>, << "rent income" >>,
      << "taxed" >>, << "rent" >>, << "xyz" >>, << "--" >>,
      << "taxed", "rent" >>, << " Rental Income ", "4000" >> }

\* the payloads the mentions arrive in: nothing else requested, or the
\* description column already holding a value
RawMentionInputs ==
    { [entities |-> [ExtractedEntitiesSchema EXCEPT
                        !.ledger_raw_mentions = raw_mentions,
                        !.ledger_description = ledger_description],
       data_profile |-> data_profile, result |-> << >>] :
        raw_mentions \in RawMentionLists,
        ledger_description \in { << >>, << "rent income" >> },
        data_profile \in LedgerProfiles }

\* one literal requested in one column: names another ledger column knows,
\* a code asked for as a description, names no column knows (one word, two
\* short words, two words, and one with a digit), and a ledger name asked for
\* as a property
ColumnRequests ==
    { [column |-> "ledger_type", value |-> "rental income"],
      [column |-> "ledger_type", value |-> "rent income"],
      [column |-> "ledger_description", value |-> "4000"],
      [column |-> "ledger_group", value |-> "foo"],
      [column |-> "ledger_group", value |-> "Tower 9"],
      [column |-> "ledger_group", value |-> "ab cd"],
      [column |-> "ledger_group", value |-> "Big Tower"],
      [column |-> "property_name", value |-> "Old Mill"],
      [column |-> "property_name", value |-> "rental income"] }

\* the payloads the request arrives in: the group column empty or already
\* holding a value
MissingValueInputs ==
    { [entities |-> [[ExtractedEntitiesSchema EXCEPT !.ledger_group = ledger_group]
                        EXCEPT ![request.column] = @ \o << request.value >>],
       data_profile |-> data_profile, request |-> request, result |-> << >>] :
        request \in ColumnRequests,
        ledger_group \in { << >>, << "Rental Income" >> },
        data_profile \in LedgerProfiles }

\* metric names a classifier payload may carry: none, the placeholder in two
\* spellings, registered names in two spellings, and an unregistered name
MetricRequests ==
    { "", "unknown", " Unknown ", "pnl", " PnL ", "count", "sum_profit",
      "cap_rate" }

\* dataset profiles that differ in their column list: all expected columns,
\* and lists without the amount column or without the ledger type
MetricProfiles ==
    { Profile,
      [Profile EXCEPT !.columns = EXPECTED_COLUMNS \ { "profit" }],
      [Profile EXCEPT !.columns = EXPECTED_COLUMNS \ { "ledger_type" }] }

\* the payloads the metric arrives in: alone, or next to a known property
MetricInputs ==
    { [entities |-> [ExtractedEntitiesSchema EXCEPT
                        !.requested_metric = requested_metric,
                        !.property_name = property_name],
       data_profile |-> data_profile, result |-> << >>] :
        requested_metric \in MetricRequests,
        property_name \in { << >>, << "Building 180" >> },
        data_profile \in MetricProfiles }

\* the outcomes the three requests of one parse_structured call would have
StructuredRequests ==
    [primary : RequestOutcomes, text_format : RequestOutcomes,
     fallback : RequestOutcomes, result : { << >> }]

(***************************************************************************)
(* src/src/data/repository.py, src/src/contracts/policies.py : the cached  *)
(* dataset and the frames handed to generated code.  frames is the list of *)
(* live DataFrame objects, a reference is a position in it, and position   *)
(* CachedFrame holds the object _load_dataframe keeps in its lru_cache.    *)
(***************************************************************************)
Dataset ==
    << [property_name |-> "Building 180", profit |-> 100],
       [property_name |-> "Building 160", profit |-> -40] >>
CachedFrame == 1

\* dataframe.copy(): a new object with the same rows
CopyFrame(frames, ref) ==
    [frames |-> Append(frames, frames[ref]), ref |-> Len(frames) + 1]

\* repository.py 28-33
get_dataframe(frames, copy) ==
    IF copy THEN CopyFrame(frames, CachedFrame)
    ELSE [frames |-> frames, ref |-> CachedFrame]

\* policies.py 107-114: the frame bound to the name dataframe in exec()
build_exec_locals(frames, dataframe) == CopyFrame(frames, dataframe)

\* a variant in which generated code is handed the cached object itself
exec_dataframe_shared(frames) == [frames |-> frames, ref |-> CachedFrame]

\* nodes.py 326-327 with codegen_service.py 69: the frame generated code
\* works on
exec_dataframe(frames) ==
    LET full_df == get_dataframe(frames, TRUE)
    IN  build_exec_locals(full_df.frames, full_df.ref)

\* what generated code does to the object named dataframe: leaves it alone
\* (it derives filtered_df from it), filters it in place, or assigns to a
\* column in place
InPlaceEffects == { "none", "filter", "assign" }
IsGain(row) == row.profit > 0
InPlace(effect, frame) ==
    IF effect = "filter" THEN SelectSeq(frame, IsGain)
    ELSE IF effect = "assign"
    THEN [i \in 1..Len(frame) |-> [frame[i] EXCEPT !.profit = 0]]
    ELSE frame

\* the turns of a session, by what each turn's generated code does
SessionCodes ==
    UNION { [1..n -> InPlaceEffects] : n \in 1..MaxApplications }
DatasetInputs ==
    [frames : { << Dataset >> }, codes : SessionCodes, result : { << >> }]

\* texts handed to the guard's text checks
MultiQuestionTexts ==
    { "", "? ?", "What is pnl??", "What is pnl? And revenue?", "a ? ? b",
      " ?pnl", "pnl and what is revenue", "pnl AND   What", "then\twhen",
      "band what", "and whatever", "pnl and, what", "and does it",
      "also-what", "and_what is", "sand castle", "and island" }
GibberishTexts ==
    { "", "  ", "!!!@@@###", "Which building has the most tenants?",
      "ab!!!!!!!!", "abc!!!!!!!", "a b !!!!!!!!", "12", "1 !!!!!!!!!",
      "?? 2025 ??????", "pnl", " x ", "a1 ?????", "a-b ???????" }
GuardTextInputs ==
    [fn : { "detect_multiple_questions" }, text : MultiQuestionTexts,
     result : { << >> }]
    \cup [fn : { "detect_gibberish" }, text : GibberishTexts,
          result : { << >> }]

ResolverInit ==
    /\ \/ pc = "_resolve_relative_time_scope" /\ state \in TimeScopeInputs
       \/ pc = "_is_supported_metric_request" /\ state \in MetricInputs
       \/ pc = "parse_structured" /\ state \in StructuredRequests
       \/ pc = "guards" /\ state \in GuardTextInputs
       \/ pc = "execute_generated_python_code" /\ state \in DatasetInputs
       \/ pc = "_missing_requested_values" /\ state \in MissingValueInputs
       \/ pc = "_resolve_requested_values" /\ state \in RequestedValueInputs
       \/ pc = "_resolve_ledger_raw_mentions" /\ state \in RawMentionInputs
    /\ ran = << >>
    /\ calls = << >>
    /\ failed = {}
    /\ executed = << >>
    /\ decision = NoDecision
    /\ resolution = NoResolution
    /\ execution_result = NoExecution
    /\ classified = NoClassification

\* the entities a further application starts from: the dict is changed in
\* place, so the last result
CurrentEntities ==
    IF state.result = << >> THEN state.entities
    ELSE state.result[Len(state.result)]

\* _resolve_relative_time_scope(entities) at the clock's date
ResolveTimeScope ==
    /\ pc = "_resolve_relative_time_scope"
    /\ Len(state.result) < MaxApplications
    /\ state' = [state EXCEPT !.result =
                    Append(@, _resolve_relative_time_scope(CurrentEntities, state.now))]
    /\ ran' = Append(ran, pc)
    /\ UNCHANGED << pc, calls, failed, executed, decision, resolution, execution_result,
                 classified >>

\* _resolve_requested_values(requested_values, allowed_raw)
ResolveRequestedValues ==
    /\ pc = "_resolve_requested_values"
    /\ state.result = << >>
    /\ state' = [state EXCEPT !.result =
                    << _resolve_requested_values(state.requested_values,
                                                 state.allowed_raw,
                                                 state.tie) >>]
    /\ ran' = Append(ran, pc)
    /\ UNCHANGED << pc, calls, failed, executed, decision, resolution, execution_result,
                 classified >>

\* _resolve_ledger_raw_mentions(entities, data_profile)
ResolveLedgerRawMentions ==
    /\ pc = "_resolve_ledger_raw_mentions"
    /\ state.result = << >>
    /\ state' = [state EXCEPT !.result =
                    << _resolve_ledger_raw_mentions(state.entities,
                                                    state.data_profile) >>]
    /\ ran' = Append(ran, pc)
    /\ UNCHANGED << pc, calls, failed, executed, decision, resolution, execution_result,
                 classified >>

\* _missing_requested_values(entities, data_profile)
MissingRequestedValues ==
    /\ pc = "_missing_requested_values"
    /\ state.result = << >>
    /\ \E tie \in Ties :
          state' = [state EXCEPT !.result =
                       << _missing_requested_values(state.entities,
                                                    state.data_profile, tie) >>]
    /\ ran' = Append(ran, pc)
    /\ UNCHANGED << pc, calls, failed, executed, decision, resolution, execution_result,
                 classified >>

\* the extractor's state before it validates pre-extracted entities
PreextractedState(entities) ==
    [build_initial_state_dict("What is pnl") EXCEPT
        !.data_profile = "dict", !.entities = entities,
        !.entities_preextracted = TRUE]

\* _is_supported_metric_request(entities, data_profile), and the state the
\* extractor returns for these entities under this profile (nodes.py 197-231)
SupportedMetricRequest ==
    /\ pc = "_is_supported_metric_request"
    /\ state.result = << >>
    /\ \E now \in Dates, tie \in Ties :
          state' = [state EXCEPT !.result =
                       << [supported |->
                              _is_supported_metric_request(state.entities,
                                                           state.data_profile),
                           extracted |->
                              ExtractorValidation(
                                  ResolveEntitiesIn(state.entities,
                                                    state.data_profile, now, tie),
                                  PreextractedState(state.entities))] >>]
    /\ ran' = Append(ran, pc)
    /\ UNCHANGED << pc, calls, failed, executed, decision, resolution, execution_result,
                 classified >>

\* llm.parse_structured(...)
ParseStructured ==
    /\ pc = "parse_structured"
    /\ state.result = << >>
    /\ state' = [state EXCEPT !.result =
                    << parse_structured(state.primary, state.text_format,
                                        state.fallback) >>]
    /\ ran' = Append(ran, pc)
    /\ UNCHANGED << pc, calls, failed, executed, decision, resolution, execution_result,
                 classified >>

\* one turn's executor on the cached dataset: exec() of this turn's code on
\* its frame, what the frame holds afterwards, and what the cache then serves
\* to the profile provider (profiler.py 97); the turn's own frames are dropped
ExecuteOnDataset ==
    /\ pc = "execute_generated_python_code"
    /\ Len(state.result) < Len(state.codes)
    /\ LET effect == state.codes[Len(state.result) + 1]
           local  == exec_dataframe(state.frames)
           after  == [local.frames EXCEPT
                         ![local.ref] = InPlace(effect, @)]
           served == get_dataframe(after, FALSE)
       IN  state' = [state EXCEPT
                        !.frames = << after[CachedFrame] >>,
                        !.result = Append(@, [effect |-> effect,
                                              dataframe |-> after[local.ref],
                                              served |-> served.frames[served.ref]])]
    /\ ran' = Append(ran, pc)
    /\ UNCHANGED << pc, calls, failed, executed, decision, resolution, execution_result,
                 classified >>

\* detect_multiple_questions(text)
DetectMultipleQuestions ==
    /\ pc = "guards"
    /\ state.fn = "detect_multiple_questions"
    /\ state.result = << >>
    /\ state' = [state EXCEPT
                    !.result = << detect_multiple_questions(state.text) >>]
    /\ ran' = Append(ran, state.fn)
    /\ UNCHANGED << pc, calls, failed, executed, decision, resolution, execution_result,
                 classified >>

\* detect_gibberish(text)
DetectGibberish ==
    /\ pc = "guards"
    /\ state.fn = "detect_gibberish"
    /\ state.result = << >>
    /\ state' = [state EXCEPT !.result = << detect_gibberish(state.text) >>]
    /\ ran' = Append(ran, state.fn)
    /\ UNCHANGED << pc, calls, failed, executed, decision, resolution, execution_result,
                 classified >>

ResolverNext ==
    \/ ResolveTimeScope
    \/ DetectMultipleQuestions
    \/ DetectGibberish
    \/ ExecuteOnDataset
    \/ ParseStructured
    \/ SupportedMetricRequest
    \/ MissingRequestedValues
    \/ ResolveRequestedValues
    \/ ResolveLedgerRawMentions

ResolverSpec == ResolverInit /\ [][ResolverNext]_vars

\* the time scope handed in, and the one after the first application
ScopeIn == state.entities.time_scope
ScopeOut == state.result[1].time_scope
TimeScopeNormalized == pc = "_resolve_relative_time_scope" /\ Len(state.result) >= 1

\* C14: after time-scope normalization time_scope.mode is either none or
\* exact, for every input time_scope: any input mode (none, exact, relative,
\* range or other) and any relative_period token, recognized or not.
C14_ModeNoneOrExact ==
    TimeScopeNormalized => ScopeOut.mode \in { "none", "exact" }

\* whether a time-scope field holds a value, as the claim has it (non-empty)
\* and as the normalizer has it (non-blank once trimmed)
NonEmpty(value) == value # None /\ value # ""
NonBlank(value) == Strip(StrOrEmpty(value)) # ""

\* the fields of a time scope that hold a value
SetFields(time_scope) ==
    { f \in { "month", "quarter", "year" } : NonEmpty(time_scope[f]) }

\* the field the priority month > quarter > year keeps
PriorityField(time_scope) ==
    IF NonEmpty(time_scope.month) THEN "month"
    ELSE IF NonEmpty(time_scope.quarter) THEN "quarter"
    ELSE "year"

\* C15 as stated: after time-scope normalization, if any of month, quarter,
\* year was non-empty in the input the mode is exact and exactly one of the
\* three is non-empty, chosen from the input by priority month > quarter >
\* year; if none was set and mode was exact, mode becomes none.
C15_PriorityOnInput ==
    TimeScopeNormalized =>
        /\ SetFields(ScopeIn) # {} =>
              /\ ScopeOut.mode = "exact"
              /\ SetFields(ScopeOut) = { PriorityField(ScopeIn) }
        /\ (SetFields(ScopeIn) = {} /\ ScopeIn.mode = "exact") =>
              ScopeOut.mode = "none"

\* the relative periods the normalizer converts, and the field each fills
RecognizedPeriods ==
    { "current_year", "last_year", "next_year", "current_quarter",
      "last_quarter", "next_quarter", "current_month", "last_month",
      "next_month" }

PeriodOf(time_scope) == Lower(Strip(StrOrEmpty(time_scope.relative_period)))

PeriodField(relative_period) ==
    IF relative_period \in { "current_year", "last_year", "next_year" } THEN "year"
    ELSE IF relative_period \in { "current_quarter", "last_quarter", "next_quarter" }
    THEN "quarter"
    ELSE "month"

\* the field the priority keeps among the fields that are non-blank
NonBlankPriorityField(time_scope) ==
    IF NonBlank(time_scope.month) THEN "month"
    ELSE IF NonBlank(time_scope.quarter) THEN "quarter"
    ELSE "year"

\* C15: the precedence applies to the time scope as relative resolution
\* leaves it.  A recognized relative period replaces whatever month, quarter
\* and year the input carried by the one field of its kind.  Otherwise, if
\* any of month, quarter, year is non-blank once trimmed, mode is exact and
\* exactly one of them survives, trimmed, by priority month > quarter > year,
\* the other two being cleared; if none is and mode was exact, mode becomes
\* none.
C15_PriorityAfterRelative ==
    TimeScopeNormalized =>
        IF PeriodOf(ScopeIn) \in RecognizedPeriods
        THEN /\ ScopeOut.mode = "exact"
             /\ SetFields(ScopeOut) = { PeriodField(PeriodOf(ScopeIn)) }
        ELSE IF \E f \in { "month", "quarter", "year" } : NonBlank(ScopeIn[f])
        THEN /\ ScopeOut.mode = "exact"
             /\ SetFields(ScopeOut) = { NonBlankPriorityField(ScopeIn) }
             /\ ScopeOut[NonBlankPriorityField(ScopeIn)] =
                   Strip(ScopeIn[NonBlankPriorityField(ScopeIn)])
             /\ \A f \in { "month", "quarter", "year" } \ { NonBlankPriorityField(ScopeIn) } :
                   ScopeOut[f] = None
        ELSE ScopeIn.mode = "exact" => ScopeOut.mode = "none"

\* a scope that came with a quarter and a year and no relative period has
\* been normalized: the quarter survived
C15_Witness ==
    /\ TimeScopeNormalized
    /\ PeriodOf(ScopeIn) \notin RecognizedPeriods
    /\ NonBlank(ScopeIn.quarter) /\ NonBlank(ScopeIn.year)
    /\ ~NonBlank(ScopeIn.month)
    /\ ScopeOut.quarter = ScopeIn.quarter
    /\ ScopeOut.year = None

\* the exact token of a recognized relative period at the date now, worked
\* out from the calendar: the quarter or month shifted by the period's
\* offset, wrapping into the neighbouring year
PeriodOffset(relative_period) ==
    IF relative_period \in { "last_year", "last_quarter", "last_month" } THEN -1
    ELSE IF relative_period \in { "next_year", "next_quarter", "next_month" } THEN 1
    ELSE 0

\* the (year, index) a shift by offset reaches from index of a cycle of
\* size indices per year
Shifted(year, index, offset, size) ==
    IF index + offset = 0 THEN [year |-> year - 1, index |-> size]
    ELSE IF index + offset = size + 1 THEN [year |-> year + 1, index |-> 1]
    ELSE [year |-> year, index |-> index + offset]

ExpectedToken(relative_period, now) ==
    LET offset == PeriodOffset(relative_period)
        q == Shifted(now.year, ((now.month - 1) \div 3) + 1, offset, 4)
        m == Shifted(now.year, now.month, offset, 12)
    IN  IF PeriodField(relative_period) = "year" THEN ToString(now.year + offset)
        ELSE IF PeriodField(relative_period) = "quarter"
        THEN ToString(q.year) \o "-Q" \o ToString(q.index)
        ELSE ToString(m.year) \o "-M" \o (IF m.index < 10 THEN "0" ELSE "")
                              \o ToString(m.index)

\* C16: for every current date (year y, month m in 1..12) last_quarter in a
\* Q1 month yields quarter 4 of y-1 and next_quarter in a Q4 month quarter 1
\* of y+1, otherwise the quarter index ((m-1) div 3)+1 shifted by -1/0/+1 in
\* year y; last_month in January yields month 12 of y-1 and next_month in
\* December month 1 of y+1, otherwise m shifted by -1/0/+1 in year y; the
\* quarter index is always in 1..4 and the month in 1..12.
C16_RelativePeriodWraparound ==
    (TimeScopeNormalized /\ PeriodOf(ScopeIn) \in RecognizedPeriods) =>
        LET relative_period == PeriodOf(ScopeIn)
            q == Shifted(state.now.year, ((state.now.month - 1) \div 3) + 1,
                         PeriodOffset(relative_period), 4)
            m == Shifted(state.now.year, state.now.month,
                         PeriodOffset(relative_period), 12)
        IN  /\ ScopeOut[PeriodField(relative_period)] =
                  ExpectedToken(relative_period, state.now)
            /\ q.index \in 1..4
            /\ m.index \in 1..12
            /\ (relative_period = "last_quarter" /\ state.now.month <= 3) =>
                  ScopeOut.quarter = ToString(state.now.year - 1) \o "-Q4"
            /\ (relative_period = "next_quarter" /\ state.now.month >= 10) =>
                  ScopeOut.quarter = ToString(state.now.year + 1) \o "-Q1"
            /\ (relative_period = "last_month" /\ state.now.month = 1) =>
                  ScopeOut.month = ToString(state.now.year - 1) \o "-M12"
            /\ (relative_period = "next_month" /\ state.now.month = 12) =>
                  ScopeOut.month = ToString(state.now.year + 1) \o "-M01"

\* next_quarter asked in a November has been resolved into the next year
C16_Witness ==
    /\ TimeScopeNormalized
    /\ PeriodOf(ScopeIn) = "next_quarter"
    /\ state.now.month = 11
    /\ ScopeOut.quarter = ToString(state.now.year + 1) \o "-Q1"

\* the normalizer has been applied to its own result
TimeScopeRenormalized == pc = "_resolve_relative_time_scope" /\ Len(state.result) >= 2

\* C17: time-scope normalization is idempotent at a fixed current date:
\* applying the normalizer to its own output leaves the time_scope unchanged,
\* and resolving the same relative period twice at the same instant yields
\* the same exact token.
C17_NormalizationIdempotent ==
    TimeScopeRenormalized =>
        /\ state.result[2].time_scope = state.result[1].time_scope
        /\ PeriodOf(ScopeIn) \in RecognizedPeriods =>
              /\ state.result[1].time_scope =
                    _resolve_relative_time_scope(state.entities, state.now).time_scope
              /\ state.result[2].time_scope[PeriodField(PeriodOf(ScopeIn))] =
                    ExpectedToken(PeriodOf(ScopeIn), state.now)

\* current_quarter resolved, and its result normalized again
C17_Witness ==
    /\ TimeScopeRenormalized
    /\ PeriodOf(ScopeIn) = "current_quarter"
    /\ state.result[2].time_scope.mode = "exact"
    /\ NonEmpty(state.result[2].time_scope.quarter)

\* what the one application of _resolve_requested_values returned
RequestedValuesResolved == pc = "_resolve_requested_values" /\ state.result # << >>

\* C18: entity resolution is idempotent on canonical values: for every
\* known-values list and every value v contained in it, resolving the request
\* [v] against that list returns exactly [v] with zero absences, also for
\* lists in which several known values have the same normalized form.
C18_CanonicalValueUnchanged ==
    (/\ RequestedValuesResolved
     /\ Len(state.requested_values) = 1
     /\ InSeq(state.requested_values[1], state.allowed_raw)) =>
        /\ state.result[1].resolved = state.requested_values
        /\ state.result[1].unresolved = << >>

\* the elements of a list
Elements(seq) == { seq[i] : i \in 1..Len(seq) }

LedgerColumnSet == Elements(ledger_columns)

\* the (column, value) pairs of the ledger columns that match a mention by
\* normalized equality, and those that only contain it
ExactPairs(mention, unique_values) ==
    { << column, value >> \in
          UNION { { << c, v >> : v \in Elements(unique_values[c]) } :
                    c \in LedgerColumnSet } :
        _normalize_text(value) = _normalize_text(mention) }

SubstringPairs(mention, unique_values) ==
    { << column, value >> \in
          UNION { { << c, v >> : v \in Elements(unique_values[c]) } :
                    c \in LedgerColumnSet } :
        /\ _normalize_text(value) # _normalize_text(mention)
        /\ Contains(_normalize_text(value), _normalize_text(mention)) }

\* the tier that decides a mention, and whether it names exactly one pair
DecidingPairs(mention, unique_values) ==
    IF ExactPairs(mention, unique_values) # {}
    THEN ExactPairs(mention, unique_values)
    ELSE SubstringPairs(mention, unique_values)

Assignable(mention, unique_values) ==
    Cardinality(DecidingPairs(mention, unique_values)) = 1

RawMentionsResolved == pc = "_resolve_ledger_raw_mentions" /\ state.result # << >>

\* C19: raw ledger mention resolution never guesses: a mention is assigned
\* to a ledger column only if exactly one (column, value) pair matches it by
\* exact normalized equality or, when there is no exact match, exactly one
\* pair matches by substring containment.  If two distinct ledger columns
\* both contain a normalized match, or zero or several candidates exist at
\* the deciding tier, the mention stays in the unresolved set and no entity
\* list is changed for it.
C19_RawMentionNeverGuessed ==
    RawMentionsResolved =>
        LET unique_values == state.data_profile.unique_values
            mentions == Elements(state.entities.ledger_raw_mentions)
            out == state.result[1]
        IN  /\ \A c \in LedgerColumnSet :
                  \A v \in Elements(out.entities[c]) \ Elements(state.entities[c]) :
                      \E m \in mentions :
                          /\ Assignable(m, unique_values)
                          /\ DecidingPairs(m, unique_values) = { << c, v >> }
            /\ \A m \in mentions :
                  IF Assignable(m, unique_values)
                  THEN ~InSeq(Strip(m), out.unresolved)
                  ELSE InSeq(Strip(m), out.unresolved)
            /\ out.entities.ledger_raw_mentions = out.unresolved

MissingValuesChecked == pc = "_missing_requested_values" /\ state.result # << >>

\* whether the requested literal is absent from its own column's known values
RequestAbsent ==
    Len(_resolve_requested_values(
            << state.request.value >>,
            state.data_profile.unique_values[state.request.column],
            1).unresolved) > 0

\* whether the requested literal is in the blocking set of its column
RequestBlocks ==
    \E m \in state.result[1].missing :
        /\ m.column = state.request.column
        /\ InSeq(Strip(state.request.value), m.values)

\* the values of a list that are normalized-equal to the requested literal
SameNormalized(values) ==
    { i \in 1..Len(values) :
        _normalize_text(values[i]) = _normalize_text(state.request.value) }

\* C20: cross-column ledger rescue: an absent value requested in a ledger
\* column is removed from the blocking set and added to another column's
\* entity list if and only if the exact-normalized search over the five
\* ledger columns yields exactly one (column, value) match; it is not added
\* when the destination list already holds a normalized-equal value; with
\* several distinct matches or none the value remains a genuine miss (no list
\* gains it, and it blocks when it is an explicit identifier).  Values
\* requested in non-ledger columns are never rescued.
C20_CrossColumnRescue ==
    (MissingValuesChecked /\ RequestAbsent) =>
        LET unique_values == state.data_profile.unique_values
            matches == ExactPairs(state.request.value, unique_values)
            in  == state.entities
            out == state.result[1].entities
            others == LedgerColumnSet \ { state.request.column }
        IN  IF /\ state.request.column \in LedgerColumnSet
               /\ Cardinality(matches) = 1
            THEN /\ ~RequestBlocks
                 /\ \A pair \in matches :
                       /\ pair[1] # state.request.column
                       /\ Cardinality(SameNormalized(out[pair[1]])) = 1
                       /\ Len(out[pair[1]]) =
                             IF SameNormalized(in[pair[1]]) # {}
                             THEN Len(in[pair[1]])
                             ELSE Len(in[pair[1]]) + 1
            ELSE /\ \A c \in others : Len(out[c]) <= Len(in[c])
                 /\ RequestBlocks <=> _is_explicit_identifier(state.request.value)


\* the matches of the space-joined request of two or more literals
\* (resolvers.py 80-86)
JoinedCanonical ==
    JoinedMatches(state.requested_values,
                  JoinWithSpace(StripNonEmpty(state.requested_values)),
                  state.allowed_raw, state.tie)

\* C21: for a request of two or more literals whose space-joined
\* concatenation resolves to a known value c, the resolved list contains c
\* and no other resolution that is a substring of c, and no absent literal
\* that is a substring of c stays in the absent list.
C21_CompoundSupersedesPartials ==
    (/\ RequestedValuesResolved
     /\ Len(state.allowed_raw) > 0
     /\ JoinedCanonical # << >>) =>
        LET c   == JoinedCanonical[1]
            out == state.result[1]
        IN  /\ InSeq(c, out.resolved)
            /\ \A i \in 1..Len(out.resolved) :
                   out.resolved[i] # c =>
                       ~Contains(_normalize_text(c),
                                 _normalize_text(out.resolved[i]))
            /\ \A i \in 1..Len(out.unresolved) :
                   ~Contains(_normalize_text(c),
                             _normalize_text(out.unresolved[i]))


\* whether the requested literal, absent from its own column, was also left
\* alone by the cross-column rescue
RequestUnrescued ==
    /\ RequestAbsent
    /\ _try_cross_column_ledger_rescue(state.request.column,
                                       Strip(state.request.value),
                                       state.data_profile.unique_values) = << >>

\* the normalized form holds a digit, or has two or more tokens of which at
\* least one is longer than two characters
ExplicitText(value) ==
    LET normalized == _normalize_text(value)
        tokens     == SplitTokens(normalized, "")
    IN  \/ HasDigit(normalized)
        \/ /\ Len(tokens) >= 2
           /\ \E i \in 1..Len(tokens) : Len(tokens[i]) > 2

\* C22: an absent (unresolved, unrescued) requested value is put in the
\* blocking set if and only if its normalized form contains a digit or has at
\* least two tokens of which at least one is longer than two characters;
\* every other absent value is dropped: it is in no blocking set and not in
\* its column's list, and when nothing else blocks the blocking set is empty.
C22_ExplicitAbsentBlocks ==
    (MissingValuesChecked /\ RequestUnrescued) =>
        LET out == state.result[1] IN
        /\ RequestBlocks <=> ExplicitText(state.request.value)
        /\ ~InSeq(Strip(state.request.value), out.entities[state.request.column])
        /\ ~ExplicitText(state.request.value) => out.missing = {}

\* a two-word name without a digit, absent and unrescued, blocks
C22_Witness ==
    /\ MissingValuesChecked
    /\ RequestUnrescued
    /\ ~HasDigit(state.request.value)
    /\ RequestBlocks


\* the known values whose normalized form equals the literal's, and those
\* that contain it or are contained in it
EqualKnown(value, known) ==
    { i \in 1..Len(known) : _normalize_text(known[i]) = _normalize_text(value) }

ContainingKnown(value, known) ==
    { i \in 1..Len(known) :
        \/ Contains(_normalize_text(known[i]), _normalize_text(value))
        \/ Contains(_normalize_text(value), _normalize_text(known[i])) }

\* the outcome the matching order gives one requested literal
MatchingOrder(value, known, out) ==
    IF EqualKnown(value, known) # {}
    THEN /\ out.unresolved = << >>
         /\ Len(out.resolved) = 1
         /\ \E i \in EqualKnown(value, known) : out.resolved[1] = known[i]
    ELSE IF ContainingKnown(value, known) # {}
    THEN /\ out.unresolved = << >>
         /\ Len(out.resolved) = 1
         /\ \E i \in ContainingKnown(value, known) :
               /\ out.resolved[1] = known[i]
               /\ \A j \in ContainingKnown(value, known) :
                      Len(known[i]) <= Len(known[j])
    ELSE /\ out.resolved = << >>
         /\ out.unresolved = << value >>

\* C23: a requested value that equals some known value after normalization
\* resolves to a known value with that normalized form; only when no exact
\* normalized match exists is bidirectional substring containment used, and
\* then the shortest matching known value is chosen; a value matching nothing
\* is reported absent.
C23_MatchingOrder ==
    (RequestedValuesResolved /\ Len(state.requested_values) = 1) =>
        MatchingOrder(Strip(state.requested_values[1]), state.allowed_raw,
                      state.result[1])


MetricChecked == pc = "_is_supported_metric_request" /\ state.result # << >>

\* the requested metric's name, trimmed and in lower case
MetricName == Lower(Strip(state.entities.requested_metric))

\* the eligibility the registry and the dataset's columns give the name
MetricEligible ==
    IF MetricName \in { "", "unknown" } THEN TRUE
    ELSE IF MetricName \notin DOMAIN SUPPORTED_METRICS THEN FALSE
    ELSE LET required == SUPPORTED_METRICS[MetricName].required_columns
         IN  \A i \in 1..Len(required) : required[i] \in state.data_profile.columns

\* C24: an empty or 'unknown' requested metric (in any case) is eligible; a
\* named metric absent from the registry is ineligible; a registered metric
\* is eligible iff every one of its required columns is in the dataset's
\* column list.  An ineligible metric ends the turn with error_type
\* not_present and the fixed not-present message.
C24_MetricEligibility ==
    MetricChecked =>
        LET out == state.result[1] IN
        /\ out.supported <=> MetricEligible
        /\ ~MetricEligible =>
              /\ out.extracted.error_type = "not_present"
              /\ out.extracted.final_answer = MSG_NOT_PRESENT
              /\ build_graph(_route_after_extractor(out.extracted))
                    = "finalize_node"

\* 'pnl' asked of a dataset without the profit column
C24_Witness ==
    /\ MetricChecked
    /\ MetricName = "pnl"
    /\ "profit" \notin state.data_profile.columns
    /\ ~state.result[1].supported
    /\ state.result[1].extracted.error_type = "not_present"


\* the execution came back without raising
ExecutionReturned == execution_result # NoExecution /\ ~execution_result.raised

\* the requested period and the dataset's range as the executor would put
\* them in words (None when they cannot be formatted)
RequestedPeriod ==
    IF state.entities = EmptyDict THEN None
    ELSE _format_time_scope_request(state.entities.time_scope)

AvailableRange == _format_available_time_range(Profile)

\* C25: in Execute, a pre-aggregation filtered row count of zero ends the
\* turn with error_type not_present without invoking the result answerer,
\* whatever the result table is; the final answer is the out-of-range time
\* message when both the exact requested time scope and the dataset's known
\* time range can be formatted, and the generic not-present message
\* otherwise.
C25_EmptyFilterNotPresent ==
    (ExecutionReturned /\ execution_result.filtered_row_count = 0) =>
        /\ state.error_type = "not_present"
        /\ ~Called("answer_from_result_with_llm")
        /\ state.computed_result = EmptyDict
        /\ state.final_answer =
              IF RequestedPeriod # None /\ AvailableRange # None
              THEN "You are asking for information in " \o RequestedPeriod
                      \o ", but the information I have is " \o AvailableRange
                      \o "."
              ELSE MSG_NOT_PRESENT

\* no filtered row although the result table has records, for a month
\* outside the dataset's range
C25_Witness ==
    /\ ExecutionReturned
    /\ execution_result.filtered_row_count = 0
    /\ execution_result.result_df.kind = "DataFrame"
    /\ execution_result.result_df.rows > 0
    /\ RequestedPeriod = "month 2026-M01"
    /\ state.final_answer # MSG_NOT_PRESENT
    /\ state.error_type = "not_present"


\* C26: in Execute, a result with no rows at all (a missing result table or
\* a result table with zero rows), when the filtered row count is not zero,
\* ends the turn with error_type not_present and the fixed not-present
\* message.
C26_EmptyResultNotPresent ==
    (/\ ExecutionReturned
     /\ execution_result.filtered_row_count # 0
     /\ \/ execution_result.result_df.kind = "None"
        \/ execution_result.result_df.rows = 0) =>
        /\ state.error_type = "not_present"
        /\ state.final_answer = MSG_NOT_PRESENT


\* the executor handed a payload to the result answerer
PayloadBuilt ==
    /\ ExecutionReturned
    /\ execution_result.filtered_row_count # 0
    /\ execution_result.result_df.kind = "DataFrame"

\* C27: for every result of n records, the payload passed to the result
\* answerer carries exactly the first min(n, 500) records, total_rows = n,
\* and truncated = true iff n > 500.
C27_PayloadBounded ==
    PayloadBuilt =>
        LET n       == execution_result.result_df.rows
            payload == state.computed_result
            kept    == IF n < 500 THEN n ELSE 500
        IN  /\ Called("answer_from_result_with_llm")
            /\ Len(payload.rows) = kept
            /\ \A i \in 1..kept : payload.rows[i] = state.retrieved_rows[i]
            /\ Len(state.retrieved_rows) = n
            /\ payload.total_rows = n
            /\ payload.truncated <=> n > 500

\* a result of more than 500 records was cut
C27_Witness ==
    /\ PayloadBuilt
    /\ execution_result.result_df.rows > 500
    /\ Len(state.computed_result.rows) = 500
    /\ state.computed_result.truncated


StructuredParsed == pc = "parse_structured" /\ state.result # << >>

\* C28: a collaborator is asked at most once per call and a failed request
\* is never re-attempted: no request that raised an exception is followed by
\* another request of the same call.
C28_FailedCallNotReattempted ==
    StructuredParsed =>
        LET requests == state.result[1].requests IN
        \A i \in 1..Len(requests) :
            requests[i].kind = "Exception" => i = Len(requests)


\* the classifier returned a decision and an entities payload
Classified == classified # NoClassification /\ ~classified.failed

\* C29: whenever the classifier returns intent definitions together with an
\* entities payload carrying any concrete value, the turn's intent after
\* Guard is dataset_knowledge, whatever the classifier's action was.
C29_DefinitionsDowngraded ==
    (/\ Classified
     /\ classified.intent = INTENT_DEFINITIONS
     /\ ~_definitions_intent_is_eligible(classified.entities)) =>
        state.intent = INTENT_DATASET_KNOWLEDGE


\* Guard has run and nothing after it
AfterGuard == ran = << "guard_router_agent" >>

\* a non-empty value in property_name, tenant_name, entity_name or
\* ledger_code of the classifier's payload
ExplicitMention(entities) ==
    \E column \in { "property_name", "tenant_name", "entity_name",
                    "ledger_code" } : Len(entities[column]) > 0

\* the classifier asked to clarify a dataset question that names an entity
ClarifyDeferred ==
    /\ Classified
    /\ classified.action = "clarify"
    /\ classified.intent = INTENT_DATASET_KNOWLEDGE
    /\ ExplicitMention(classified.entities)

\* C30: when the classifier returns action clarify with intent
\* dataset_knowledge and a non-empty value in property_name, tenant_name,
\* entity_name or ledger_code, Guard overrides the action to continue, leaves
\* needs_clarification false, stashes the entities as pre-extracted, and the
\* turn proceeds to Extract, where a mention the validation finds missing
\* produces not-present before any clarification is asked.  For any other
\* clarify decision of the classifier Guard sets needs_clarification and the
\* turn goes to Clarify.
C30_ClarifyDeferredForValidation ==
    /\ (AfterGuard /\ ClarifyDeferred) =>
          /\ state.routing_action = "continue"
          /\ ~state.needs_clarification
          /\ state.entities_preextracted
          /\ state.entities = classified.entities
          /\ pc = "entity_extractor_agent"
    /\ (ClarifyDeferred /\ ExtractBlocked) =>
          /\ state.error_type = "not_present"
          /\ state.final_answer = MSG_NOT_PRESENT
          /\ ~state.needs_clarification
          /\ ~HasRun("clarification_node")
    /\ (/\ AfterGuard
        /\ Classified
        /\ classified.action = "clarify"
        /\ ~ClarifyDeferred) =>
          /\ state.routing_action = "clarify"
          /\ state.needs_clarification
          /\ ~state.entities_preextracted
          /\ pc = "clarification_node"

\* a clarify decision naming an unknown building was deferred, and the
\* extractor answered not-present
C30_Witness ==
    /\ ClarifyDeferred
    /\ HasRun("entity_extractor_agent")
    /\ ExtractBlocked
    /\ state.error_type = "not_present"


\* the extractor has validated pre-extracted entities and nothing ran after it
AfterExtract ==
    /\ ran = << "guard_router_agent", "entity_extractor_agent" >>
    /\ resolution # NoResolution

\* C31: when time-scope normalization ends with mode exact, the entities'
\* needs_clarification flag is false and clarification_prompt is empty
\* afterwards, whatever they were before; Extract then never routes the turn
\* to Clarify on the strength of the payload's own clarification flag.
C31_ExactScopeClearsClarification ==
    (AfterExtract /\ state.entities.time_scope.mode = "exact") =>
        /\ ~state.entities.needs_clarification
        /\ state.entities.clarification_prompt = ""
        /\ ~resolution.needs_clarification
        /\ ~state.needs_clarification
        /\ pc # "clarification_node"

\* a payload that asked to clarify and named a relative period
C31_Witness ==
    /\ AfterExtract
    /\ Classified
    /\ classified.entities.needs_clarification
    /\ classified.entities.clarification_prompt # ""
    /\ state.entities.time_scope.mode = "exact"
    /\ ~state.entities.needs_clarification
    /\ pc = "query_agent"


\* whether a history already ends with this user text
EndsWithUserText(messages, text) ==
    /\ Len(messages) > 0
    /\ messages[Len(messages)].role = "user"
    /\ Strip(messages[Len(messages)].content) = text

\* the history a step leaves keeps every entry of the history it found
HistoryKept ==
    /\ Len(state'.messages) >= Len(state.messages)
    /\ SubSeq(state'.messages, 1, Len(state.messages)) = state.messages

\* Finalize appends the final answer as one assistant message iff it is
\* non-empty, and every stage but Guard and Finalize leaves the history alone
FinalizeAndOthers ==
    /\ pc = "finalize_node" =>
          state'.messages =
              IF Truthy(state'.final_answer)
              THEN Append(state.messages,
                          Message("assistant", state'.final_answer))
              ELSE state.messages
    /\ pc \notin { "guard_router_agent", "finalize_node" } =>
          state'.messages = state.messages

\* C32 as stated: history handling within a turn is append-only: Guard
\* appends the user message unless the last history entry is already a user
\* message with this text, Finalize appends the final answer as one assistant
\* message iff final_answer is non-empty, and no stage removes or rewrites an
\* existing history entry.
C32_GuardAppendsUserMessage ==
    [][ /\ HistoryKept
        /\ FinalizeAndOthers
        /\ (pc = "guard_router_agent" /\ pc' # "raised") =>
              state'.messages =
                 IF EndsWithUserText(state.messages, Strip(state.user_query))
                 THEN state.messages
                 ELSE Append(state.messages,
                             Message("user", Strip(state.user_query))) ]_vars

\* C32 amended: the same, with Guard appending the trimmed user text only
\* when it is non-empty; a Guard run on its own result adds nothing.
C32_HistoryAppendOnly ==
    [][ /\ HistoryKept
        /\ FinalizeAndOthers
        /\ (pc = "guard_router_agent" /\ pc' # "raised") =>
              /\ state'.messages =
                    IF \/ Strip(state.user_query) = ""
                       \/ EndsWithUserText(state.messages,
                                           Strip(state.user_query))
                    THEN state.messages
                    ELSE Append(state.messages,
                                Message("user", Strip(state.user_query)))
              /\ \A cls \in ClassifierOutcomes :
                    guard_router_agent(state', cls).messages = state'.messages
      ]_vars

\* a later turn of a session: Guard added the user text to a history that
\* ended with an answer, and Finalize added the answer
C32_Witness ==
    /\ pc = "END"
    /\ Len(state.messages) = 4
    /\ state.messages[2].role = "assistant"
    /\ state.messages[3] = Message("user", Strip(state.user_query))
    /\ state.messages[4] = Message("assistant", state.final_answer)


DatasetExecuted == pc = "execute_generated_python_code" /\ state.result # << >>

\* C33: the execution backend always operates on a private copy of the
\* dataset: for any sequence of turns and any generated code that filters or
\* assigns in place, the cached dataset served to later turns (and to the
\* profile provider) is unchanged.
C33_CachedDatasetUnchanged ==
    pc = "execute_generated_python_code" =>
        /\ state.frames = << Dataset >>
        /\ \A i \in 1..Len(state.result) : state.result[i].served = Dataset

\* a second turn was served the dataset after the first turn's code had
\* changed its own frame in place
C33_Witness ==
    /\ DatasetExecuted
    /\ Len(state.result) >= 2
    /\ state.result[1].effect # "none"
    /\ state.result[1].dataframe # Dataset
    /\ state.result[2].served = Dataset


MultipleQuestionsChecked ==
    /\ pc = "guards"
    /\ state.fn = "detect_multiple_questions"
    /\ state.result # << >>

\* a position where a segment between runs of question marks shows its first
\* character that is neither a question mark nor whitespace
SegmentStart(s, i) ==
    /\ Char(s, i) # "?"
    /\ ~IsSpace(Char(s, i))
    /\ \A j \in 1..(i - 1) :
          (\A k \in j..(i - 1) : Char(s, k) # "?") => IsSpace(Char(s, j))
NonEmptySegments(s) == Cardinality({ i \in 1..Len(s) : SegmentStart(s, i) })

\* word w stands at position i of s as a whole word
WholeWordAt(s, i, w) ==
    /\ MatchAt(s, i, w)
    /\ i = 1 \/ ~IsWordChar(Char(s, i - 1))
    /\ i + Len(w) > Len(s) \/ ~IsWordChar(Char(s, i + Len(w)))

\* one of and/also/then, whitespace, one of the interrogative or modal words
ConjunctionThenInterrogative(s) ==
    \E i \in 1..Len(s), k \in 1..Len(s) :
      \E a \in 1..Len(ConjunctionWords), b \in 1..Len(InterrogativeWords) :
        /\ WholeWordAt(s, i, ConjunctionWords[a])
        /\ WholeWordAt(s, k, InterrogativeWords[b])
        /\ k > i + Len(ConjunctionWords[a])
        /\ \A p \in (i + Len(ConjunctionWords[a]))..(k - 1) :
              IsSpace(Char(s, p))

\* C34: detect_multiple_questions(text) is true whenever splitting text on
\* runs of question marks yields two or more non-empty trimmed segments, and
\* otherwise is true exactly when the lower-cased text contains one of
\* and/also/then followed by whitespace and one of the fixed
\* interrogative/modal words as whole words.
C34_MultipleQuestions ==
    MultipleQuestionsChecked =>
        state.result[1] =
            (\/ NonEmptySegments(state.text) >= 2
             \/ ConjunctionThenInterrogative(Lower(state.text)))

\* a single segment judged a double question by its words alone
C34_Witness ==
    /\ MultipleQuestionsChecked
    /\ NonEmptySegments(state.text) < 2
    /\ ConjunctionThenInterrogative(Lower(state.text))
    /\ state.text # Lower(state.text)
    /\ state.result[1]


GibberishChecked ==
    /\ pc = "guards"
    /\ state.fn = "detect_gibberish"
    /\ state.result # << >>

AlphaRunStarts(s) ==
    { i \in 1..Len(s) :
        IsAlpha(Char(s, i)) /\ (i = 1 \/ ~IsAlpha(Char(s, i - 1))) }
AlnumPositions(s) == { i \in 1..Len(s) : IsAlnum(Char(s, i)) }
NonSpacePositions(s) == { i \in 1..Len(s) : ~IsSpace(Char(s, i)) }

\* the three cases of gibberish, on the trimmed text
GibberishCases(s) ==
    \/ s = ""
    \/ AlphaRunStarts(s) = {} /\ \A i \in 1..Len(s) : ~IsDigit(Char(s, i))
    \/ /\ 100 * Cardinality(AlnumPositions(s))
             < 30 * Cardinality(NonSpacePositions(s))
       /\ Cardinality(AlphaRunStarts(s)) <= 1

\* C35: detect_gibberish(text) is true iff the trimmed text is empty, or it
\* has no alphabetic run and no digit, or (alphanumeric characters /
\* non-whitespace characters < 0.30 and there is at most one alphabetic run);
\* so the empty string and "!!!@@@###" are gibberish and "Which building has
\* the most tenants?" is not.
C35_Gibberish ==
    GibberishChecked =>
        /\ state.result[1] = GibberishCases(Strip(state.text))
        /\ state.text \in { "", "!!!@@@###" } => state.result[1]
        /\ state.text = "Which building has the most tenants?" => ~state.result[1]

\* a text below the ratio that is kept because it has two alphabetic runs
C35_Witness ==
    /\ GibberishChecked
    /\ 100 * Cardinality(AlnumPositions(Strip(state.text)))
          < 30 * Cardinality(NonSpacePositions(Strip(state.text)))
    /\ Cardinality(AlphaRunStarts(Strip(state.text))) = 2
    /\ ~state.result[1]


\* an exact time scope as a human phrase: the month by its name and year
HumanPhrase(time_scope) ==
    IF Truthy(time_scope.month)
    THEN "month " \o _format_month_token(Strip(time_scope.month))
    ELSE IF Truthy(time_scope.quarter)
    THEN "quarter " \o Strip(time_scope.quarter)
    ELSE "year " \o Strip(time_scope.year)

\* C36: the out-of-range message renders the requested exact time scope as
\* a human phrase: a month token YYYY-Mnn with its month name and year
\* ("month May 2025"), a quarter as "quarter YYYY-Qn", a year as
\* "year YYYY", and the dataset's min/max range is rendered in the same way.
C36_RequestedScopeAsPhrase ==
    (/\ ExecutionReturned
     /\ execution_result.filtered_row_count = 0
     /\ RequestedPeriod # None) =>
        state.final_answer =
            "You are asking for information in "
               \o HumanPhrase(state.entities.time_scope)
               \o ", but the information I have is from "
               \o MONTH_LABELS[SubSeq(Profile.min_month, 6, 8)] \o " "
               \o SubSeq(Profile.min_month, 1, 4) \o " to "
               \o MONTH_LABELS[SubSeq(Profile.max_month, 6, 8)] \o " "
               \o SubSeq(Profile.max_month, 1, 4) \o "."


\* C37: whenever any stage sets needs_clarification (Guard, Extract or
\* Query, from a collaborator-supplied prompt or a default),
\* clarification_question is non-empty, so that a turn routed to Clarify
\* always leaves Clarify with final_answer equal to that question; the
\* collaborator-supplied prompt ranges over all strings, the empty one
\* included.
C37_ClarificationQuestionSet ==
    /\ state.needs_clarification => Truthy(state.clarification_question)
    /\ HasRun("clarification_node") =>
          /\ Truthy(state.final_answer)
          /\ state.final_answer = state.clarification_question


\* the turn's intent after Guard is definitions
DefinitionsTurn == HasRun("guard_router_agent") /\ state.intent = INTENT_DEFINITIONS

\* C38: the profile-only answerer is invoked only in a turn whose intent
\* after Guard is definitions and whose classifier entities payload is
\* definitions-eligible (no concrete value); in such a turn the code
\* generator and the execution backend are never invoked, and in every turn
\* with another intent the profile-only answerer is never invoked.
C38_ProfileAnswererOnlyForDefinitions ==
    /\ Called("answer_from_profile_with_llm") =>
          /\ DefinitionsTurn
          /\ Classified
          /\ classified.intent = INTENT_DEFINITIONS
          /\ _definitions_intent_is_eligible(classified.entities)
          /\ Count(calls, "answer_from_profile_with_llm") = 1
    /\ (DefinitionsTurn /\ Classified
          /\ _definitions_intent_is_eligible(classified.entities)) =>
          /\ ~Called("generate_query_code_with_llm")
          /\ ~Called("get_dataframe")
          /\ ~Called("execute_generated_python_code")
          /\ executed = << >>
    /\ (HasRun("guard_router_agent") /\ state.intent # INTENT_DEFINITIONS) =>
          ~Called("answer_from_profile_with_llm")

\* a definitions turn answered from the profile alone, ended
C38_Witness ==
    /\ pc = "END"
    /\ DefinitionsTurn
    /\ Called("answer_from_profile_with_llm")
    /\ "answer_from_profile_with_llm" \notin failed
    /\ HasRun("executor_response_agent")
    /\ state.final_answer = state.messages[Len(state.messages)].content


\* the text Guard's checks look at
GuardedText == Strip(state.user_query)

\* C39: Guard's text checks have the fixed precedence multi-question, then
\* adversarial, then gibberish: a query for which detect_multiple_questions
\* is true always ends with the multi-question message and error_type
\* not_present even if it also contains an adversarial marker or is
\* gibberish, and a query that is both adversarial and gibberish (such as
\* one made of "###") ends with intent and error_type adversarial.
C39_GuardPrecedence ==
    HasRun("guard_router_agent") =>
        /\ detect_multiple_questions_of[GuardedText] =>
              /\ state.final_answer = MSG_MULTIPLE_QUESTION
              /\ state.error_type = "not_present"
              /\ state.intent \notin { INTENT_ADVERSARIAL, INTENT_GIBBERISH }
              /\ ~Called("classify_intent_and_extract_with_llm")
        /\ (/\ ~detect_multiple_questions_of[GuardedText]
            /\ detect_adversarial_of[GuardedText]
            /\ detect_gibberish_of[GuardedText]) =>
              /\ state.intent = INTENT_ADVERSARIAL
              /\ state.error_type = "adversarial"
              /\ state.final_answer = MSG_CANNOT_PROCEED
              /\ ~Called("classify_intent_and_extract_with_llm")

\* a turn on a text that is adversarial and gibberish at once, ended
C39_Witness ==
    /\ pc = "END"
    /\ ~detect_multiple_questions_of[GuardedText]
    /\ detect_adversarial_of[GuardedText]
    /\ detect_gibberish_of[GuardedText]
    /\ state.intent = INTENT_ADVERSARIAL
    /\ state.messages[Len(state.messages)] =
          Message("assistant", MSG_CANNOT_PROCEED)


\* a history of completed turns: user and assistant messages in turn
Alternates(messages) ==
    /\ Len(messages) % 2 = 0
    /\ \A i \in 1..Len(messages) :
          messages[i].role = IF i % 2 = 1 THEN "user" ELSE "assistant"

\* a history of completed turns followed by the current turn's user message
AwaitsAnswer(messages) ==
    /\ Len(messages) % 2 = 1
    /\ Alternates(SubSeq(messages, 1, Len(messages) - 1))
    /\ messages[Len(messages)].role = "user"

\* the history a turn starts from: the completed turns of the session, or on
\* the first turn the history build_initial_state has put the query in
TurnStart ==
    \/ Alternates(state.messages)
    \/ state.messages = << Message("user", state.user_query) >>

\* Guard leaves the history with this turn's user message last
GuardAddsUserMessage ==
    (pc = "guard_router_agent" /\ pc' # "raised" /\ TurnStart) =>
        AwaitsAnswer(state'.messages)

\* Finalize completes the turn with one assistant message
FinalizeAddsAssistantMessage ==
    (pc = "finalize_node" /\ AwaitsAnswer(state.messages)) =>
        /\ Alternates(state'.messages)
        /\ Len(state'.messages) = Len(state.messages) + 1

\* C40: after any sequence of completed turns starting from an empty history
\* (the session layer resetting the per-turn fields between turns), the
\* conversation history strictly alternates user and assistant messages:
\* each turn adds exactly one user message followed by exactly one assistant
\* message.
C40_HistoryAlternates ==
    [][GuardAddsUserMessage /\ FinalizeAddsAssistantMessage]_vars


====
